---- MODULE Spec2Model ----
(***************************************************************************)
(* Model of the capture store of snapy: CaptureStorage (the two copies in  *)
(* src/src/snapy/capture/storage.py and src/src/snapy_capture/storage.py), *)
(* the CaptureLoader built on it, the capture_args / capture wrappers and  *)
(* CaptureHandler.record.                                                  *)
(*                                                                         *)
(* One storage root directory is modelled as the function `files` from a   *)
(* file name to the file's content.  A capture file's name is              *)
(* <function_name>_<timestamp to the millisecond>.pkl; the clock `now`     *)
(* counts ticks finer than a millisecond.                                  *)
(***************************************************************************)
EXTENDS Integers, Sequences, FiniteSets, TLC

\* ---------------------------------------------------------------- bounds
MaxCalls == 3        \* save_capture / delete_captures calls in one run
MaxTime == 2         \* last clock tick
TicksPerMs == 2      \* clock ticks (datetime.now() values) per millisecond
MaxRetention == 2    \* largest retention argument
MaxGarbage == 1      \* corrupt files the environment drops into the root
MaxCaptures == 2     \* largest max_captures of a `capture` decoration
MaxWrapped == 2      \* calls of decorated functions in one run
MaxMockArgs == 2     \* different arguments the side-effect mock is called with
MaxDepth == 2        \* frames of traced code on the interpreter's stack
MaxTraced == 5       \* function calls and with-blocks of one traced run
MaxRaised == 4       \* the same, of a traced run with one session in view
MaxContexts == 2     \* CaptureContext blocks open at once
MaxConfigs == 4      \* CaptureConfig objects made in one run
MaxArgs == 3         \* positional arguments of a normalized call
ThreadRetention == 1 \* the retention argument of the concurrent save_capture calls
MaxHandCalls == 2    \* calls of the decorated function by one thread on a shared folder
MaxFaultCalls == 2   \* save_capture calls of a run in which saves can fail

VARIABLES
    impl,      \* which CaptureStorage module the store is an instance of
    now,       \* the wall clock, in ticks
    files,     \* the storage root: file name -> content
    calls,     \* number of save_capture calls made so far
    garbage,   \* number of corrupt files written by the environment
    story,     \* per function name: the save_capture calls a client made for it
    last,      \* the latest call a client made and what it returned
    blobs,     \* the capture folder of the `capture` decorator: name -> payload
    wrapped,   \* the latest call of a decorated function, as its caller saw it
    inst,      \* per saving thread: the CaptureStorage instance it calls
    lock,      \* per CaptureStorage instance: the thread holding _lock, 0 if free
    saver,     \* per saving thread: where it is in save_capture, and its locals
    reader,    \* the reading thread: where it is in list_captures, and its locals
    norm,      \* one call through the argument normalizer, and its replay
    owner,     \* per call of a decorated function: the function that was called
    running,   \* the call of a decorated function that is in progress
    filt,      \* the mapping given to the sensitivity filter and what it made of it
    looked,    \* the last side_effect_lookup and what its caller got
    mock,      \* the side-effect mock: its calls, what its fallback recorded, the verdict on it
    py,        \* the interpreter thread: trace hook, tracers, frames, pending exception
    blocks,    \* the open with-blocks of tracers, innermost last
    traces,    \* the traces a TracedSnapshot has stored
    cfg,       \* the process-wide configuration, the open contexts, decorated functions, threads asking for it
    all,       \* the latest operation on all the functions of the store and what it returned
    hand       \* the threads using one capture folder: callers of a decorated function, a lookup

storeVars == <<impl, now, files, calls, garbage>>
wrapVars == <<blobs, wrapped>>
threadVars == <<inst, lock, saver, reader>>
traceVars == <<py, blocks, traces>>
extraVars == <<all, hand>>
moreVars == <<mock, traceVars, cfg, extraVars>>
pureVars == <<norm, owner, running, filt, looked, moreVars>>
programVars == <<storeVars, story, last, wrapVars, threadVars>>
vars == <<impl, now, files, calls, garbage, story, last, blobs, wrapped,
          inst, lock, saver, reader, norm, owner, running, filt, looked,
          mock, py, blocks, traces, cfg, all, hand>>

\* ------------------------------------------------------------ vocabulary
\* Function names (func.__name__).  "f_x" starts with "f_".
FuncNames == {"f", "f_x"}

\* A name split at its underscores.
Tokens(function_name) ==
    IF function_name = "f_x" THEN <<"f", "x">> ELSE <<function_name>>

Impls == {"snapy.capture", "snapy_capture"}

\* What a file holds: a pickled CapturedCall ("ok") or bytes that make the
\* deserializer raise EOFError, pickle.UnpicklingError or some other
\* exception (ValueError, AttributeError, ...).
GarbageKinds == {"EOFError", "UnpicklingError", "ValueError"}

Ms(timestamp) == timestamp \div TicksPerMs

\* _generate_filename: the name carries the timestamp cut to milliseconds.
_generate_filename(function_name, timestamp) ==
    [fn |-> function_name, ms |-> Ms(timestamp)]

\* The name tempfile.NamedTemporaryFile gives the file it creates for a
\* thread: "tmp" and random characters, no suffix.
NamedTemporaryFile(thread) == [fn |-> "tmp", ms |-> -thread]

\* The suffix of a file name.
Suffix(name) == IF name.fn = "tmp" THEN "" ELSE ".pkl"

\* The underscore-separated tokens of a file name, without its suffix: for a
\* capture file the name's tokens, then date, time and milliseconds.
FileTokens(name) ==
    IF name.fn = "tmp" THEN <<"tmp", name.ms>>
    ELSE Tokens(name.fn) \o <<"date", "time", name.ms>>

IsPrefix(p, s) == Len(p) <= Len(s) /\ SubSeq(s, 1, Len(p)) = p

\* glob of "<function_name>_*.pkl" against one file name.
GlobMatches(function_name, name) ==
    /\ Suffix(name) = ".pkl"
    /\ Len(Tokens(function_name)) < Len(FileTokens(name))
    /\ IsPrefix(Tokens(function_name), FileTokens(name))

AllNames == [fn : FuncNames, ms : 0..Ms(MaxTime)]

NoRecord == [path |-> [fn |-> "", ms |-> 0], fn |-> "", ts |-> 0, arg |-> 0, kind |-> "none"]

CapturedCall(path, function_name, timestamp, arg) ==
    [path |-> path, fn |-> function_name, ts |-> timestamp, arg |-> arg, kind |-> "ok"]

\* A file whose record is not written to the end yet.
Partial == [path |-> [fn |-> "", ms |-> 0], fn |-> "", ts |-> 0, arg |-> 0, kind |-> "partial"]

Garbage(kind) ==
    [path |-> [fn |-> "", ms |-> 0], fn |-> "", ts |-> 0, arg |-> 0, kind |-> kind]

\* ------------------------------------------------------------- load path
\* The exception the deserializer ends with on a path, "" when it succeeds.
DeserializeError(fs, path) ==
    IF path \notin DOMAIN fs THEN "FileNotFoundError"
    ELSE IF fs[path].kind = "ok" THEN ""
    ELSE IF fs[path].kind = "partial" THEN "EOFError"
    ELSE fs[path].kind

\* The exceptions load_capture's except clauses catch.
Caught(im, exc) ==
    IF im = "snapy.capture" THEN TRUE
    ELSE exc \in {"FileNotFoundError", "UnpicklingError", "EOFError"}

\* load_capture: [raised, value]; value is NoRecord for None.
load_capture(im, fs, path) ==
    LET e == DeserializeError(fs, path) IN
    IF e = "" THEN [raised |-> FALSE, value |-> fs[path]]
    ELSE IF Caught(im, e) THEN [raised |-> FALSE, value |-> NoRecord]
    ELSE [raised |-> TRUE, value |-> NoRecord]

\* list_captures, first half: the files the glob returns.
Globbed(fs, function_name) ==
    {n \in DOMAIN fs : GlobMatches(function_name, n)}

ListRaises(im, fs, function_name) ==
    \E n \in Globbed(fs, function_name) : load_capture(im, fs, n).raised

Loaded(im, fs, function_name) ==
    {load_capture(im, fs, n).value : n \in
        {m \in Globbed(fs, function_name) : load_capture(im, fs, m).value.kind = "ok"}}

RECURSIVE Orderings(_)
\* Every order in which the elements of a set can be listed.
Orderings(S) ==
    IF S = {} THEN {<< >>}
    ELSE UNION {{<<x>> \o p : p \in Orderings(S \ {x})} : x \in S}

\* The comparison of a sort that lacks reverse=True.
BeforeAscending(a, b) == a.ts < b.ts

\* The comparison of the sort: does capture a go before capture b
\* (key = metadata.timestamp, reverse=True)?
Before(a, b) == a.ts > b.ts

\* x put into the sorted list s behind every element that is not after it.
Insert(x, s) ==
    LET k == Cardinality({i \in 1..Len(s) : ~Before(x, s[i])})
    IN  SubSeq(s, 1, k) \o <<x>> \o SubSeq(s, k + 1, Len(s))

RECURSIVE Sort(_)
\* list.sort: a stable sort.
Sort(s) ==
    IF s = << >> THEN << >>
    ELSE Insert(s[Len(s)], Sort(SubSeq(s, 1, Len(s) - 1)))

IsOk(c) == c.kind = "ok"

\* list_captures: every list it can return, one for each order in which glob
\* may report the files.  Files that load as None are skipped.
list_captures(im, fs, function_name) ==
    {Sort(SelectSeq([i \in 1..Len(g) |-> load_capture(im, fs, g[i]).value], IsOk))
     : g \in Orderings(Globbed(fs, function_name))}

Remove(fs, paths) == [n \in DOMAIN fs \ paths |-> fs[n]]

\* ------------------------------------------------------------ write path
NoPath == [fn |-> "", ms |-> 0]

\* The argument value that no serializer can dump (a lambda, a socket).
Unpicklable == 0

\* _safe_serialize: the primary serializer, then the dill fallback, dump the
\* record; when both fail the primary error is raised.
_safe_serialize(capture) == [raised |-> capture.kind = "ok" /\ capture.arg = Unpicklable]

\* The file is written where it will stay.
in_place(thread, file_path) == file_path

\* temp_file_path: Path(temp_file.name), a new file of file_path's directory.
temp_file_path(thread, file_path) == NamedTemporaryFile(thread)

\* open(path, "wb"): the file exists and is empty.
create(fs, path) == [n \in DOMAIN fs \cup {path} |-> IF n = path THEN Partial ELSE fs[n]]

\* serializer.dump(capture, f) run to its end.
dump(fs, path, capture) == [n \in DOMAIN fs \cup {path} |-> IF n = path THEN capture ELSE fs[n]]

\* os.rename(src, dst): dst is src's content, whatever dst was; src is gone.
os_rename(fs, src, dst) ==
    [n \in (DOMAIN fs \ {src}) \cup {dst} |-> IF n = dst THEN fs[src] ELSE fs[n]]

\* A number no temporary file of the root is named by.
Unused(fs) == 3 + Cardinality({n \in DOMAIN fs : n.fn = "tmp"})

\* A writer that opens file_path itself and dumps into it: when the dump
\* fails the file is left unfinished.
write_in_place(im, fs, capture, file_path) ==
    IF _safe_serialize(capture).raised
    THEN [files |-> create(fs, file_path), raised |-> TRUE]
    ELSE [files |-> dump(create(fs, file_path), file_path, capture), raised |-> FALSE]

\* _save_to_file: the record is serialized into a temporary file of the
\* same directory, which os.rename then moves onto file_path; a file that
\* already has that name is replaced.
\* If serializing raises, snapy.capture unlinks the temporary file and
\* raises the error again: the directory is as it was.  snapy_capture has no
\* handler: the error leaves the with block, and the temporary file, which
\* is created with delete=False, stays in the directory, unfinished.
_save_to_file(im, fs, capture, file_path) ==
    LET temp == temp_file_path(Unused(fs), file_path) IN
    IF _safe_serialize(capture).raised
    THEN [files |-> IF im = "snapy.capture" THEN fs ELSE create(fs, temp),
          raised |-> TRUE]
    ELSE [files |-> os_rename(dump(create(fs, temp), temp, capture), temp, file_path),
          raised |-> FALSE]

\* The captures _cleanup_old_captures removes from a listing: captures[retention:].
old_captures(captures, retention) ==
    {captures[i].path : i \in (retention + 1)..Len(captures)}

\* _cleanup_old_captures: every outcome [files, raised, deleted].
_cleanup_old_captures(im, fs, function_name, retention) ==
    IF ListRaises(im, fs, function_name)
    THEN {[files |-> fs, raised |-> TRUE, deleted |-> 0]}
    ELSE {[files |-> IF Len(captures) <= retention THEN fs
                     ELSE Remove(fs, old_captures(captures, retention)),
           raised |-> FALSE,
           deleted |-> IF Len(captures) <= retention THEN 0
                       ELSE Cardinality(old_captures(captures, retention) \cap DOMAIN fs)]
          : captures \in list_captures(im, fs, function_name)}

\* _has_existing_captures
_has_existing_captures(im, fs, function_name) ==
    Loaded(im, fs, function_name) # {}

\* save_capture: every outcome [files, raised, wrote, path] of one call made
\* at time `timestamp` with argument `arg`.
save_capture(im, fs, function_name, timestamp, arg, retention, overwrite) ==
    IF ~overwrite /\ ListRaises(im, fs, function_name)
    THEN {[files |-> fs, raised |-> TRUE, wrote |-> FALSE, path |-> NoPath]}
    ELSE IF ~overwrite /\ _has_existing_captures(im, fs, function_name)
    THEN {[files |-> fs, raised |-> FALSE, wrote |-> FALSE, path |-> existing_files[1].path]
          : existing_files \in list_captures(im, fs, function_name)}
    ELSE LET file_path == _generate_filename(function_name, timestamp)
             capture == CapturedCall(file_path, function_name, timestamp, arg)
             written == _save_to_file(im, fs, capture, file_path)
         IN  IF written.raised
             THEN {[files |-> written.files, raised |-> TRUE, wrote |-> FALSE,
                    path |-> NoPath]}
             ELSE {[files |-> c.files, raised |-> c.raised, wrote |-> TRUE,
                    path |-> IF c.raised THEN NoPath ELSE file_path]
                   : c \in _cleanup_old_captures(im, written.files, function_name,
                                                 retention)}

\* delete_captures: every outcome [files, raised, deleted].
delete_captures(im, fs, function_name) ==
    IF ListRaises(im, fs, function_name)
    THEN {[files |-> fs, raised |-> TRUE, deleted |-> 0]}
    ELSE {[files |-> Remove(fs, {captures[i].path : i \in 1..Len(captures)}),
           raised |-> FALSE,
           deleted |-> Cardinality({captures[i].path : i \in 1..Len(captures)} \cap DOMAIN fs)]
          : captures \in list_captures(im, fs, function_name)}

\* ------------------------------------------------------------- read path
\* load_latest_capture: captures[0] if captures else None, as a list of
\* at most one capture.
load_latest_capture(captures) ==
    IF captures # << >> THEN <<captures[1]>> ELSE << >>

\* load_capture_by_index: captures[index] if 0 <= index < len(captures).
load_capture_by_index(captures, index) ==
    IF 0 <= index /\ index < Len(captures) THEN <<captures[index + 1]>> ELSE << >>

\* CaptureLoader.has_captures: bool(list_captures(...)), as 1 or 0.
has_captures(captures) == IF captures # << >> THEN 1 ELSE 0

\* CaptureLoader.get_capture_count: len(list_captures(...)).
get_capture_count(captures) == Len(captures)

\* ------------------------------------------------------------------ Init
NoCall == [op |-> "none", fn |-> "", k |-> 0, ow |-> FALSE, idx |-> 0, path |-> NoPath,
           raised |-> FALSE, wrote |-> FALSE, recs |-> << >>, num |-> 0]

NoStory == [state |-> "none", k |-> 0, ow |-> FALSE, nums |-> {}, wrote |-> {}]
Broken == [state |-> "broken", k |-> 0, ow |-> FALSE, nums |-> {}, wrote |-> {}]

\* The story of a function name after one more save_capture call for it: it
\* stays a story while every call has the same retention and overwrite and
\* none raises.
Told(st, n, retention, overwrite, r) ==
    IF r.raised \/ st.state = "broken" THEN Broken
    ELSE IF st.state = "saves" /\ (st.k # retention \/ st.ow # overwrite) THEN Broken
    ELSE [state |-> "saves", k |-> retention, ow |-> overwrite,
          nums |-> st.nums \cup {n},
          wrote |-> IF r.wrote THEN st.wrote \cup {n} ELSE st.wrote]

\* The threads that call save_capture.
Savers == {1, 2}

\* The CaptureStorage instances opened on the storage root.
Instances == {"a", "b"}

\* A thread that has not called save_capture yet.
Idle == [pc |-> "idle", fn |-> "", k |-> 0, ow |-> FALSE, ts |-> 0, path |-> NoPath,
         wrote |-> FALSE]

\* The reading thread before it calls list_captures.
NotReading == [pc |-> "idle", fn |-> "", pending |-> {}, got |-> {}]

\* No decorated function has been called.
NoWrapped == [wrapper |-> "none", invoked |-> 0, result |-> [raised |-> FALSE, value |-> ""],
              func |-> [raised |-> FALSE, value |-> ""], failed |-> FALSE]

\* No call has gone through the argument normalizer.
NoNorm == [phase |-> "none", sig |-> << >>, args |-> << >>, kwargs |-> << >>,
           named |-> << >>, stored |-> << >>, positional |-> [raised |-> FALSE, arguments |-> << >>],
           bykey |-> [raised |-> FALSE, arguments |-> << >>]]

\* No decorated function has been called for the store.
NoOwner == << >>

\* No call of a decorated function is in progress.
\* retention, overwrite, enabled and max_captures are the decorator's
\* parameters; entry_files and entry_time remember the store and the clock
\* at the moment the wrapper was entered.
NotRunning == [phase |-> "idle", wrapper |-> "none", fn |-> "", arg |-> 0,
               retention |-> 0, overwrite |-> FALSE,
               enabled |-> FALSE, max_captures |-> 0, fault |-> "none",
               entry_files |-> << >>, entry_time |-> 0]

\* side_effect_lookup has not been called.
NotLooked == [arg |-> 0, strict |-> FALSE, raised |-> FALSE, exc |-> "",
              value |-> "", found |-> FALSE]

\* The filter has not been given a mapping.
NoFilt == [phase |-> "idle", ignore_args |-> << >>, args_dict |-> << >>,
           once |-> << >>, twice |-> << >>]

\* The mock has not been called: no call in its history, nothing recorded
\* by its fallback, and assert_side_effect_calls has not judged it.
NoMock == [calls |-> << >>, recorded |-> << >>, verdict |-> "none"]

\* FunctionTracer.__init__: no events, an empty call stack, not tracing.
\* `filtered` says whether filter_modules names the module of the traced
\* code only (then the tracer's own module is not traced).
NewTracer(filtered) ==
    [filtered |-> filtered, events |-> << >>, call_stack |-> << >>,
     original_trace |-> "None", is_tracing |-> FALSE]

\* The interpreter before the traced code runs: no trace hook, no frame.
NoPy == [hook |-> "None", tracers |-> [t \in {"a", "b"} |-> NewTracer(FALSE)],
         frames |-> << >>, exc |-> FALSE, steps |-> 0]

NoBlocks == << >>
NoTraces == << >>

\* No configuration object (None), and the configuration module as loaded:
\* no global configuration made, nothing decorated, no thread asking.
NoConfig == [id |-> 0, enabled |-> FALSE, default_path |-> ""]
CfgFns == {"f", "g"}
Threads == {"t1", "t2"}
NoCfg ==
    [global |-> NoConfig, made |-> 0, set |-> NoConfig, epoch |-> 0,
     stack |-> << >>,
     fns |-> [fn \in CfgFns |-> [decoration |-> "none", func |-> << >>]],
     records |-> {},
     threads |-> [th \in Threads |-> [pc |-> "idle", result |-> NoConfig,
                                      since |-> 0]]]

\* No operation on all the functions of the store has been called.
NoAll == [op |-> "", k |-> 0, before |-> << >>, after |-> << >>, names |-> << >>, total_functions |-> 0,
          total_files |-> 0, deleted |-> 0, raised |-> FALSE]

\* The threads of the capture folder have not started.
Callers == {1, 2}
NotLooking == [pc |-> "idle", arg |-> 0, strict |-> FALSE, pending |-> {},
               out |-> [raised |-> FALSE, exc |-> "", value |-> "", found |-> FALSE]]
NoHand == [max_captures |-> 0,
           caller |-> [t \in Callers |-> [pc |-> "idle", arg |-> 0, name |-> 0, made |-> 0]],
           look |-> NotLooking]

InitExtra ==
    /\ all = NoAll
    /\ hand = NoHand

\* The mock, the tracer and the configuration have not been used.
InitMore ==
    /\ InitExtra
    /\ mock = NoMock
    /\ py = NoPy
    /\ blocks = NoBlocks
    /\ traces = NoTraces
    /\ cfg = NoCfg

\* No argument has been normalized or filtered.
InitPure ==
    /\ norm = NoNorm
    /\ owner = NoOwner
    /\ running = NotRunning
    /\ filt = NoFilt
    /\ looked = NotLooked
    /\ InitMore

\* Nothing has been stored and no thread or decorated function has run.
Quiet ==
    /\ impl = "snapy.capture"
    /\ now = 0
    /\ files = << >>
    /\ calls = 0
    /\ garbage = 0
    /\ story = [f \in FuncNames |-> NoStory]
    /\ last = NoCall
    /\ blobs = << >>
    /\ wrapped = NoWrapped
    /\ inst = [t \in Savers |-> "a"]
    /\ lock = [i \in Instances |-> 0]
    /\ saver = [t \in Savers |-> Idle]
    /\ reader = NotReading

Init ==
    /\ impl \in Impls
    /\ now = 0
    /\ files = << >>
    /\ calls = 0
    /\ garbage = 0
    /\ story = [f \in FuncNames |-> NoStory]
    /\ last = NoCall
    /\ blobs = << >>
    /\ wrapped = NoWrapped
    /\ inst = [t \in Savers |-> "a"]
    /\ lock = [i \in Instances |-> 0]
    /\ saver = [t \in Savers |-> Idle]
    /\ reader = NotReading
    /\ InitPure

Retentions == 1..MaxRetention

\* The clock advances.
Tick ==
    /\ now < MaxTime
    /\ now' = now + 1
    /\ UNCHANGED <<impl, files, calls, garbage, story, last>>

\* What one save_capture call with outcome r does to the store; the argument
\* saved is the number of the call, so every call saves a different value.
Saved(r) ==
    /\ calls' = calls + 1
    /\ files' = r.files
    /\ UNCHANGED <<impl, now, garbage>>

\* One call of CaptureStorage.save_capture by the client whose calls `story`
\* and `last` record, saving the value arg.
SaveCaptureOf(function_name, retention, overwrite, arg) ==
    /\ calls < MaxCalls
    /\ \E r \in save_capture(impl, files, function_name, now, arg,
                             retention, overwrite) :
        /\ Saved(r)
        /\ story' = [story EXCEPT ![function_name] =
                        Told(@, calls + 1, retention, overwrite, r)]
        /\ last' = [NoCall EXCEPT !.op = "save_capture", !.fn = function_name,
                        !.k = retention, !.ow = overwrite, !.wrote = r.wrote,
                        !.raised = r.raised, !.path = r.path]

\* One call of CaptureStorage.delete_captures by that client.
DeleteCaptures(function_name) ==
    /\ \E r \in delete_captures(impl, files, function_name) :
        /\ files' = r.files
        /\ last' = [NoCall EXCEPT !.op = "delete_captures", !.fn = function_name,
                        !.raised = r.raised, !.num = r.deleted]
    /\ story' = [story EXCEPT ![function_name] = Broken]
    /\ UNCHANGED <<impl, now, calls, garbage>>

\* A call that saves the number of the call.
SaveCapture(function_name, retention, overwrite) ==
    SaveCaptureOf(function_name, retention, overwrite, calls + 1)

Next ==
    /\ \/ Tick
       \/ \E f \in FuncNames, k \in Retentions, ow \in BOOLEAN : SaveCapture(f, k, ow)
       \/ \E f \in FuncNames : DeleteCaptures(f)
    /\ UNCHANGED <<wrapVars, threadVars, pureVars>>

Spec == Init /\ [][Next]_vars

\* ------------------------------------------------- saves that can fail
\* The retention arguments, 0 among them.
AnyRetention == 0..MaxRetention

\* A call whose arguments may hold a value that cannot be serialized.
SaveAny(function_name, retention, overwrite, picklable) ==
    /\ calls < MaxFaultCalls
    /\ SaveCaptureOf(function_name, retention, overwrite,
                     IF picklable THEN calls + 1 ELSE Unpicklable)

NextFault ==
    /\ \/ Tick
       \/ \E f \in FuncNames, k \in AnyRetention, ow \in BOOLEAN, picklable \in BOOLEAN :
             SaveAny(f, k, ow, picklable)
    /\ UNCHANGED <<wrapVars, threadVars, pureVars>>

SpecFault == Init /\ [][NextFault]_vars

\* -------------------------------------------------------- a reading client
\* A save_capture call of another client: the reading client does not see
\* what it returns.
StoreSave(function_name, retention, overwrite) ==
    /\ calls < MaxCalls
    /\ last = NoCall
    /\ \E r \in save_capture(impl, files, function_name, now, calls + 1,
                             retention, overwrite) : Saved(r)
    /\ UNCHANGED <<story, last>>

\* A delete_captures call of another client.
StoreDelete(function_name) ==
    /\ last = NoCall
    /\ \E r \in delete_captures(impl, files, function_name) : files' = r.files
    /\ UNCHANGED <<impl, now, calls, garbage, story, last>>

\* Something outside the store leaves a truncated or corrupt .pkl file under
\* a name no file has yet.
WriteGarbage(function_name, kind) ==
    /\ garbage < MaxGarbage
    /\ last = NoCall
    /\ _generate_filename(function_name, now) \notin DOMAIN files
    /\ files' = _save_to_file(impl, files, Garbage(kind),
                              _generate_filename(function_name, now)).files
    /\ garbage' = garbage + 1
    /\ UNCHANGED <<impl, now, calls, story, last>>

\* CaptureStorage.load_capture(file_path)
LoadCapture(file_path) ==
    /\ last = NoCall
    /\ LET r == load_capture(impl, files, file_path) IN
        last' = [NoCall EXCEPT !.op = "load_capture", !.path = file_path,
                     !.raised = r.raised,
                     !.recs = IF IsOk(r.value) THEN <<r.value>> ELSE << >>]
    /\ UNCHANGED <<impl, now, files, calls, garbage, story>>

\* A read of the store that starts with list_captures(function_name):
\* list_captures itself, load_latest_capture, load_capture_by_index,
\* CaptureLoader.has_captures or CaptureLoader.get_capture_count.
Read(op, function_name, index) ==
    /\ last = NoCall
    /\ IF ListRaises(impl, files, function_name)
       THEN last' = [NoCall EXCEPT !.op = op, !.fn = function_name, !.idx = index,
                         !.raised = TRUE]
       ELSE \E captures \in list_captures(impl, files, function_name) :
            last' = [NoCall EXCEPT !.op = op, !.fn = function_name, !.idx = index,
                !.recs = CASE op = "list_captures" -> captures
                           [] op = "load_latest_capture" -> load_latest_capture(captures)
                           [] op = "load_capture_by_index" ->
                                load_capture_by_index(captures, index)
                           [] OTHER -> << >>,
                !.num = CASE op = "has_captures" -> has_captures(captures)
                          [] op = "get_capture_count" -> get_capture_count(captures)
                          [] OTHER -> 0]
    /\ UNCHANGED <<impl, now, files, calls, garbage, story>>

ListCaptures(function_name) == Read("list_captures", function_name, 0)
LoadLatestCapture(function_name) == Read("load_latest_capture", function_name, 0)
LoadCaptureByIndex(function_name, index) == Read("load_capture_by_index", function_name, index)
HasCaptures(function_name) == Read("has_captures", function_name, 0)
GetCaptureCount(function_name) == Read("get_capture_count", function_name, 0)

\* The reading client takes the result; only then is the next call made.
Return ==
    /\ last # NoCall
    /\ last' = NoCall
    /\ UNCHANGED <<impl, now, files, calls, garbage, story>>

Indexes == -1..MaxCalls

TickRead == last = NoCall /\ Tick

NextRead ==
    /\ \/ TickRead
       \/ \E f \in FuncNames, k \in Retentions, ow \in BOOLEAN : StoreSave(f, k, ow)
       \/ \E f \in FuncNames : StoreDelete(f)
       \/ \E n \in AllNames : LoadCapture(n)
       \/ \E f \in FuncNames : ListCaptures(f)
       \/ \E f \in FuncNames : LoadLatestCapture(f)
       \/ \E f \in FuncNames, i \in Indexes : LoadCaptureByIndex(f, i)
       \/ \E f \in FuncNames : HasCaptures(f)
       \/ \E f \in FuncNames : GetCaptureCount(f)
       \/ Return
    /\ UNCHANGED <<wrapVars, threadVars, pureVars>>

SpecRead == Init /\ [][NextRead]_vars

\* The reading client on a root that also holds corrupt files.
NextCorrupt ==
    \/ NextRead
    \/ /\ \E f \in FuncNames, kind \in GarbageKinds : WriteGarbage(f, kind)
       /\ UNCHANGED <<wrapVars, threadVars, pureVars>>

SpecCorrupt == Init /\ [][NextCorrupt]_vars

\* ------------------------------------------------- all functions of a store
\* Every string a function name starts with, in the order sorted() gives.
NameOrder == <<"f", "f_x">>

\* sorted(list(function_names))
sorted(function_names) == SelectSeq(NameOrder, LAMBDA name : name \in function_names)

\* list_all_functions: of every *.pkl file of the root, the text before the
\* first underscore of its name.
list_all_functions(fs) ==
    sorted({FileTokens(n)[1] : n \in {m \in DOMAIN fs : Suffix(m) = ".pkl"}})

RECURSIVE cleanup_each(_, _, _, _)
\* The loop of cleanup_all_captures over the names: every outcome
\* [files, raised, deleted]; an exception of a listing ends the loop.
cleanup_each(im, fs, function_names, retention) ==
    IF function_names = << >> THEN {[files |-> fs, raised |-> FALSE, deleted |-> 0]}
    ELSE UNION {IF c.raised THEN {c}
                ELSE {[r EXCEPT !.deleted = @ + c.deleted]
                      : r \in cleanup_each(im, c.files, Tail(function_names), retention)}
                : c \in _cleanup_old_captures(im, fs, Head(function_names), retention)}

\* cleanup_all_captures(retention)
cleanup_all_captures(im, fs, retention) ==
    cleanup_each(im, fs, list_all_functions(fs), retention)

RECURSIVE file_count(_, _, _)
\* total_files: the sum of len(list_captures(function_name)) over the names.
file_count(im, fs, function_names) ==
    IF function_names = << >> THEN 0
    ELSE Cardinality(Loaded(im, fs, Head(function_names)))
         + file_count(im, fs, Tail(function_names))

\* get_storage_stats: [raised, total_functions, total_files].
get_storage_stats(im, fs) ==
    LET functions == list_all_functions(fs) IN
    IF \E i \in DOMAIN functions : ListRaises(im, fs, functions[i])
    THEN [raised |-> TRUE, total_functions |-> 0, total_files |-> 0]
    ELSE [raised |-> FALSE, total_functions |-> Len(functions),
          total_files |-> file_count(im, fs, functions)]

allIdle == <<impl, now, calls, garbage, last, wrapVars, threadVars, norm, owner, running,
             filt, looked, mock, traceVars, cfg, hand>>

\* One call of CaptureStorage.list_all_functions.
ListAllFunctions ==
    /\ all' = [NoAll EXCEPT !.op = "list_all_functions", !.before = files,
                            !.names = list_all_functions(files)]
    /\ UNCHANGED <<allIdle, files, story>>

\* One call of CaptureStorage.get_storage_stats.
GetStorageStats ==
    /\ LET stats == get_storage_stats(impl, files) IN
        all' = [NoAll EXCEPT !.op = "get_storage_stats", !.before = files,
                             !.raised = stats.raised,
                             !.total_functions = stats.total_functions,
                             !.total_files = stats.total_files]
    /\ UNCHANGED <<allIdle, files, story>>

\* One call of CaptureStorage.cleanup_all_captures(retention).
CleanupAllCaptures(retention) ==
    /\ \E r \in cleanup_all_captures(impl, files, retention) :
        /\ files' = r.files
        /\ all' = [NoAll EXCEPT !.op = "cleanup_all_captures", !.k = retention,
                                !.before = files, !.after = r.files,
                                !.raised = r.raised, !.deleted = r.deleted]
    /\ story' = [f \in FuncNames |-> Broken]
    /\ UNCHANGED allIdle

\* The client's calls leave the result of the latest operation on all the
\* functions behind them.
NextStore ==
    \/ Next
    \/ ListAllFunctions
    \/ GetStorageStats
    \/ \E k \in Retentions : CleanupAllCaptures(k)

SpecStore == Init /\ [][NextStore]_vars

\* ------------------------------------------------- decorated functions
\* What the decorated function does when it is invoked: it returns a value
\* or raises.
FuncOutcomes == {[raised |-> FALSE, value |-> "r1"], [raised |-> FALSE, value |-> "r2"],
                 [raised |-> TRUE, value |-> "AppError"]}

\* What can go wrong while the arguments of a call are captured: sig.bind
\* rejects them, the filter raises, or the arguments cannot be serialized.
Faults == {"none", "bind", "filter", "serialize"}

\* _args_to_named_dict: a failure of sig.bind is caught and the arguments are
\* named by the fallbacks; nothing is raised.
_args_to_named_dict(fault) == [raised |-> FALSE]

\* ArgumentFilter.filter_args_dict / get_minimal_args_dict
filter_args_dict(fault) == [raised |-> fault = "filter"]

\* _capture_arguments: name the arguments, filter them, save them with
\* storage.save_capture; the first exception ends it.
_capture_arguments(fs, function_name, timestamp, arg, retention, overwrite, fault) ==
    IF _args_to_named_dict(fault).raised \/ filter_args_dict(fault).raised
    THEN {[files |-> fs, raised |-> TRUE]}
    ELSE {[files |-> r.files, raised |-> r.raised]
          : r \in save_capture("snapy.capture", fs, function_name, timestamp,
                               IF fault = "serialize" THEN Unpicklable ELSE arg,
                               retention, overwrite)}

\* No handler: the exception of the capture leaves the wrapper.
no_except(c) == c

\* `except Exception` around the capture: the exception is dropped (a warning
\* is printed, or `pass`) and the statements after the try block run.
except_Exception(c) == [c EXCEPT !.raised = FALSE]

\* The call as its caller sees it when an exception of the capture leaves
\* the wrapper before the function is invoked.
CaptureError == [raised |-> TRUE, value |-> "CaptureError"]

\* _capture_and_call_sync: capture the arguments inside try/except, then
\* return func(*args, **kwargs).  Every outcome [files, invoked, result, failed].
_capture_and_call_sync(fs, function_name, timestamp, arg, retention, overwrite, fault, func) ==
    {LET t == except_Exception(c) IN
        IF t.raised
        THEN [files |-> t.files, invoked |-> 0, result |-> CaptureError, failed |-> c.raised]
        ELSE [files |-> t.files, invoked |-> 1, result |-> func, failed |-> c.raised]
     : c \in _capture_arguments(fs, function_name, timestamp, arg, retention, overwrite,
                                fault)}

\* _capture_and_call_async: the same, and the coroutine func returns is
\* awaited once.
_capture_and_call_async(fs, function_name, timestamp, arg, retention, overwrite, fault, func) ==
    {LET t == except_Exception(c) IN
        IF t.raised
        THEN [files |-> t.files, invoked |-> 0, result |-> CaptureError, failed |-> c.raised]
        ELSE [files |-> t.files, invoked |-> 1, result |-> func, failed |-> c.raised]
     : c \in _capture_arguments(fs, function_name, timestamp, arg, retention, overwrite,
                                fault)}

\* A blob that dill.dump left unfinished.
PartialBlob == [arg |-> 0, result |-> "", complete |-> FALSE]

\* CaptureHandler.record: the blob <milliseconds>.pkl is opened with "wb",
\* which empties a blob of that name, and the payload is dumped into it.
record(bs, arg, result, timestamp, fault) ==
    [blobs |-> [n \in DOMAIN bs \cup {Ms(timestamp)} |->
                    IF n # Ms(timestamp) THEN bs[n]
                    ELSE IF fault = "serialize" THEN PartialBlob
                    ELSE [arg |-> arg, result |-> result, complete |-> TRUE]],
     raised |-> fault = "serialize"]

\* The wrapper of `capture`: the function is invoked first; when the
\* environment flag is set and the folder holds fewer than max_captures
\* blobs the call is recorded, inside try/except.
capture(bs, enabled, max_captures, arg, timestamp, fault, func) ==
    IF func.raised
    THEN [blobs |-> bs, invoked |-> 1, result |-> func, failed |-> FALSE]
    ELSE LET c == IF enabled /\ Cardinality(DOMAIN bs) < max_captures
                  THEN record(bs, arg, func.value, timestamp, fault)
                  ELSE [blobs |-> bs, raised |-> FALSE]
             t == except_Exception(c)
         IN  IF t.raised
             THEN [blobs |-> t.blobs, invoked |-> 1, result |-> CaptureError,
                   failed |-> c.raised]
             ELSE [blobs |-> t.blobs, invoked |-> 1, result |-> func, failed |-> c.raised]

\* One call of a function decorated with capture_args.
CallWrapper(wrapper, function_name, retention, overwrite, fault, func) ==
    /\ calls < MaxWrapped
    /\ \E r \in IF wrapper = "sync_wrapper"
                THEN _capture_and_call_sync(files, function_name, now, calls + 1,
                                            retention, overwrite, fault, func)
                ELSE _capture_and_call_async(files, function_name, now, calls + 1,
                                             retention, overwrite, fault, func) :
        /\ files' = r.files
        /\ wrapped' = [wrapper |-> wrapper, invoked |-> r.invoked, result |-> r.result,
                       func |-> func, failed |-> r.failed]
    /\ calls' = calls + 1
    /\ UNCHANGED <<impl, now, garbage, story, last, blobs, threadVars>>

SyncWrapper(function_name, retention, overwrite, fault, func) ==
    CallWrapper("sync_wrapper", function_name, retention, overwrite, fault, func)

AsyncWrapper(function_name, retention, overwrite, fault, func) ==
    CallWrapper("async_wrapper", function_name, retention, overwrite, fault, func)

\* One call of a function decorated with `capture`.
CaptureWrapper(enabled, max_captures, fault, func) ==
    /\ calls < MaxWrapped
    /\ LET r == capture(blobs, enabled, max_captures, calls + 1, now, fault, func) IN
        /\ blobs' = r.blobs
        /\ wrapped' = [wrapper |-> "capture", invoked |-> r.invoked, result |-> r.result,
                       func |-> func, failed |-> r.failed]
    /\ calls' = calls + 1
    /\ UNCHANGED <<impl, now, files, garbage, story, last, threadVars>>

TickWrap == Tick /\ UNCHANGED <<wrapVars, threadVars, pureVars>>

InitWrap == Init /\ impl = "snapy.capture"

NextWrap ==
    /\ \/ TickWrap
       \/ \E f \in FuncNames, k \in Retentions, ow \in BOOLEAN, fault \in Faults,
             func \in FuncOutcomes : SyncWrapper(f, k, ow, fault, func)
       \/ \E f \in FuncNames, k \in Retentions, ow \in BOOLEAN, fault \in Faults,
             func \in FuncOutcomes : AsyncWrapper(f, k, ow, fault, func)
       \/ \E enabled \in BOOLEAN, m \in 1..MaxCaptures, fault \in Faults,
             func \in FuncOutcomes : CaptureWrapper(enabled, m, fault, func)
    /\ UNCHANGED pureVars

SpecWrap == InitWrap /\ [][NextWrap]_vars

\* ---------------------------------------------------- argument normalizer
\* Python values: an int, a str, or a tuple, list or dict of entries
\* [key, value]; the entries of a tuple or list have the key "".
\* A set has members instead.
IntVal(n) == [t |-> "int", n |-> n, s |-> "", items |-> << >>, members |-> {}]
StrVal(s) == [t |-> "str", n |-> 0, s |-> s, items |-> << >>, members |-> {}]
Container(t, items) == [t |-> t, n |-> 0, s |-> "", items |-> items, members |-> {}]
SetOf(members) == [t |-> "set", n |-> 0, s |-> "", items |-> << >>, members |-> members]
Entry(key, value) == [key |-> key, value |-> value]

\* The keys and the values of an ordered mapping, a sequence of entries.
Keys(d) == {d[i].key : i \in DOMAIN d}
Values(d) == [i \in DOMAIN d |-> Entry("", d[i].value)]
Get(d, key) == d[CHOOSE i \in DOMAIN d : d[i].key = key].value

\* d[key] = value: a key the mapping has keeps its place and gets the value.
Put(d, key, value) ==
    IF key \in Keys(d)
    THEN [i \in DOMAIN d |-> IF d[i].key = key THEN Entry(key, value) ELSE d[i]]
    ELSE Append(d, Entry(key, value))

RECURSIVE PutAll(_, _)
\* for key, value in entries: d[key] = value
PutAll(d, entries) ==
    IF entries = << >> THEN d
    ELSE PutAll(Put(d, entries[1].key, entries[1].value), Tail(entries))

\* A parameter of a signature; kind is "pos" (positional or keyword),
\* "varpos" (*args), "kwonly" or "varkw" (**kwargs).
Param(name, kind, has_default) == [name |-> name, kind |-> kind, has_default |-> has_default]

\* The value of every default.
Default == IntVal(0)

\* The functions that are called: their signatures, and one that has no
\* signature inspect can recover (a builtin).
Signatures == {
    <<Param("a", "pos", FALSE), Param("b", "pos", TRUE)>>,
    <<Param("a", "pos", FALSE), Param("rest", "varpos", FALSE)>>,
    <<Param("a", "pos", FALSE), Param("b", "kwonly", TRUE)>>,
    <<Param("a", "pos", FALSE), Param("kw", "varkw", FALSE)>>,
    <<Param("a", "pos", FALSE), Param("token", "pos", TRUE)>>,
    <<Param("?", "unrecoverable", FALSE)>>}

Recoverable(sig) == \A i \in DOMAIN sig : sig[i].kind # "unrecoverable"

\* The parameters a keyword argument can fill.
Named(sig) == {sig[i].name : i \in {j \in DOMAIN sig : sig[j].kind \in {"pos", "kwonly"}}}
NumPos(sig) == Cardinality({i \in DOMAIN sig : sig[i].kind = "pos"})
HasKind(sig, kind) == \E i \in DOMAIN sig : sig[i].kind = kind

\* Signature.bind followed by apply_defaults: [raised, arguments], the
\* arguments in declaration order; TypeError for too many positionals, an
\* unexpected keyword, two values for one parameter or a missing argument.
bind(sig, args, kwargs) ==
    LET filled(i) == sig[i].kind = "pos" /\ i <= Len(args)
        extra == [i \in 1..(Len(args) - NumPos(sig)) |-> Entry("", args[NumPos(sig) + i])]
        others == SelectSeq(kwargs, LAMBDA e : e.key \notin Named(sig))
        value(i) ==
            CASE sig[i].kind = "varpos" -> Container("tuple", extra)
              [] sig[i].kind = "varkw" -> Container("dict", others)
              [] filled(i) -> args[i]
              [] sig[i].name \in Keys(kwargs) -> Get(kwargs, sig[i].name)
              [] OTHER -> Default
        raised ==
            \/ Len(args) > NumPos(sig) /\ ~HasKind(sig, "varpos")
            \/ others # << >> /\ ~HasKind(sig, "varkw")
            \/ \E i \in DOMAIN sig : filled(i) /\ sig[i].name \in Keys(kwargs)
            \/ \E i \in DOMAIN sig :
                  /\ sig[i].kind \in {"pos", "kwonly"}
                  /\ ~filled(i) /\ sig[i].name \notin Keys(kwargs) /\ ~sig[i].has_default
    IN  [raised |-> raised,
         arguments |-> IF raised THEN << >>
                       ELSE [i \in DOMAIN sig |-> Entry(sig[i].name, value(i))]]

\* The key the fallbacks give the positional argument with index i (from 0).
ExtraName(i) == "*args[" \o ToString(i) \o "]"
IndexName(i) == "arg_" \o ToString(i)

\* _args_to_named_dict, when the function's signature can be read: the
\* bound arguments in declaration order, or, when binding fails, the
\* positionals under the parameter names (a surplus one under "*args[i]")
\* and then every keyword under its own name.
named_by_signature(sig, args, kwargs) ==
    IF ~bind(sig, args, kwargs).raised
    THEN bind(sig, args, kwargs).arguments
    ELSE PutAll([i \in DOMAIN args |->
                    Entry(IF i <= Len(sig) THEN sig[i].name ELSE ExtraName(i - 1), args[i])],
                kwargs)

\* _args_to_named_dict, last fallback: positionals under "arg_<i>", then the
\* keywords.
named_by_index(args, kwargs) ==
    PutAll([i \in DOMAIN args |-> Entry(IndexName(i - 1), args[i])], kwargs)

\* _args_to_named_dict(func, args, kwargs): the mapping named_args it returns.
named_args(sig, args, kwargs) ==
    IF Recoverable(sig) THEN named_by_signature(sig, args, kwargs)
    ELSE named_by_index(args, kwargs)

\* ------------------------------------------------------ sensitivity filter
LowerLetters == "abcdefghijklmnopqrstuvwxyz"
UpperLetters == "ABCDEFGHIJKLMNOPQRSTUVWXYZ"

Char(s, i) == SubSeq(s, i, i)
Rest(s) == SubSeq(s, 2, Len(s))

\* The letters of one case, each with its letter in the other case.
CaseTable(from, to) ==
    [c \in {Char(from, i) : i \in 1..Len(from)} |->
        Char(to, CHOOSE i \in 1..Len(from) : Char(from, i) = c)]

ToLower == CaseTable(UpperLetters, LowerLetters)
ToUpper == CaseTable(LowerLetters, UpperLetters)

\* One character in the other case.
Recase(c, table) == IF c \in DOMAIN table THEN table[c] ELSE c

RECURSIVE lower(_)
\* str.lower
lower(s) == IF s = "" THEN "" ELSE Recase(Char(s, 1), ToLower) \o lower(Rest(s))

RECURSIVE upper(_)
\* str.upper
upper(s) == IF s = "" THEN "" ELSE Recase(Char(s, 1), ToUpper) \o upper(Rest(s))

\* `p in s` for strings.
Contains(s, p) == \E i \in 1..(Len(s) - Len(p) + 1) : SubSeq(s, i, i + Len(p) - 1) = p

RECURSIVE Matches(_, _)
\* re.match of "^" + pattern with every "*" as ".*" + "$" against text.
Matches(pattern, text) ==
    IF pattern = "" THEN text = ""
    ELSE IF Char(pattern, 1) = "*"
    THEN Matches(Rest(pattern), text) \/ (text # "" /\ Matches(pattern, Rest(text)))
    ELSE text # "" /\ Char(pattern, 1) = Char(text, 1) /\ Matches(Rest(pattern), Rest(text))

\* CaptureConfig._match_pattern: the match ignores case.
_match_pattern(pattern, text) == Matches(lower(pattern), lower(text))

\* CaptureConfig.ignore_args: the default list, and a list with wildcards.
IgnoreArgs == {<<"password", "token", "secret", "key", "auth">>, <<"pass*", "*_id">>}

\* CaptureConfig.is_arg_ignored
is_arg_ignored(ignore_args, arg_name) ==
    \E i \in DOMAIN ignore_args : _match_pattern(ignore_args[i], arg_name)

\* The patterns _build_sensitive_keys starts from.
DefaultPatterns == {
    "password", "passwd", "pwd", "token", "access_token", "refresh_token", "auth_token",
    "secret", "api_secret", "client_secret", "key", "api_key", "private_key", "public_key",
    "auth", "authorization", "credential", "creds", "session", "sessionid",
    "cookie", "cookies", "hash", "salt", "pin", "otp", "signature", "sign"}

RECURSIVE Without(_, _)
\* str.replace(c, "")
Without(s, c) == IF s = "" THEN ""
                 ELSE (IF Char(s, 1) = c THEN "" ELSE Char(s, 1)) \o Without(Rest(s), c)

\* _build_sensitive_keys: the default patterns and the configured ones
\* without their wildcards, in lower case.
_build_sensitive_keys(ignore_args) ==
    DefaultPatterns \cup
    ({lower(Without(ignore_args[i], "*")) : i \in DOMAIN ignore_args} \ {""})

\* _is_sensitive_key
_is_sensitive_key(ignore_args, key) ==
    \/ is_arg_ignored(ignore_args, key)
    \/ LET key_lower == lower(key) IN
       \E pattern \in _build_sensitive_keys(ignore_args) : Contains(key_lower, pattern)

\* The placeholder of a filtered name: f"<FILTERED:{key.upper()}>".
Filtered(key) == StrVal("<FILTERED:" \o upper(key) \o ">")

\* A string filter whose replacement still shows the string.
bracketed_string(ignore_args, value) ==
    IF value.t # "str" THEN value
    ELSE LET value_lower == lower(value.s) IN
         IF \E sensitive_pattern \in _build_sensitive_keys(ignore_args) :
                Contains(value_lower, sensitive_pattern) /\ Len(value.s) > 10
         THEN StrVal("[" \o value.s \o "]")
         ELSE value

\* _filter_string_value: a string of more than 10 characters that contains
\* a sensitive pattern becomes a placeholder; anything else is returned.
_filter_string_value(ignore_args, value) ==
    IF value.t # "str" THEN value
    ELSE LET value_lower == lower(value.s) IN
         IF \E sensitive_pattern \in _build_sensitive_keys(ignore_args) :
                Contains(value_lower, sensitive_pattern) /\ Len(value.s) > 10
         THEN StrVal("<FILTERED:SENSITIVE_STRING>")
         ELSE value

RECURSIVE _deep_filter_value(_, _)
\* _deep_filter_value, with _deep_filter_dict, _deep_filter_sequence and
\* _deep_filter_set: a dict entry with a sensitive key becomes the key's
\* placeholder, every other value is filtered in turn.
_deep_filter_value(ignore_args, value) ==
    CASE value.t = "dict" ->
            Container("dict", [i \in DOMAIN value.items |->
                IF _is_sensitive_key(ignore_args, value.items[i].key)
                THEN Entry(value.items[i].key, Filtered(value.items[i].key))
                ELSE Entry(value.items[i].key,
                           _deep_filter_value(ignore_args, value.items[i].value))])
      [] value.t \in {"list", "tuple"} ->
            Container(value.t, [i \in DOMAIN value.items |->
                Entry("", _deep_filter_value(ignore_args, value.items[i].value))])
      [] value.t = "set" ->
            SetOf({_deep_filter_value(ignore_args, item) : item \in value.members})
      [] OTHER -> _filter_string_value(ignore_args, value)

\* A filter that does not look at the names of the arguments.
deep_filtered_only(ignore_args, args_dict) ==
    [i \in DOMAIN args_dict |->
        Entry(args_dict[i].key, _deep_filter_value(ignore_args, args_dict[i].value))]

\* ArgumentFilter.filter_args_dict: an argument whose name is ignored becomes
\* the name's placeholder, every other value is deep filtered.
filtered_dict(ignore_args, args_dict) ==
    [i \in DOMAIN args_dict |->
        IF is_arg_ignored(ignore_args, args_dict[i].key)
        THEN Entry(args_dict[i].key, Filtered(args_dict[i].key))
        ELSE Entry(args_dict[i].key, _deep_filter_value(ignore_args, args_dict[i].value))]

\* ------------------------------------------------------ filtering a mapping
\* Argument names, and keys of nested mappings.
SampleKeys == {"password", "Token", "api_key", "user", "user_id"}

\* Values without structure: an int, a short string, a long string without
\* and long strings with a sensitive keyword.
Scalars == {IntVal(7), StrVal("abc123"), StrVal("hello, world"),
            StrVal("my secret plan"), StrVal("Please sign here")}

\* A mapping with one entry.
DictOf(key, value) == Container("dict", <<Entry(key, value)>>)

\* Values with structure: mappings in mappings, a list, a tuple, a set.
Structured ==
    {DictOf(k, v) : k \in SampleKeys, v \in {StrVal("abc123"), StrVal("my secret plan")}}
    \cup {DictOf("outer", DictOf(k, IntVal(7))) : k \in SampleKeys}
    \cup {Container("list", <<Entry("", StrVal("my secret plan")),
                              Entry("", DictOf("api_key", IntVal(7)))>>),
          Container("tuple", <<Entry("", StrVal("abc123")),
                               Entry("", StrVal("Please sign here"))>>),
          SetOf({StrVal("my secret plan"), StrVal("Please sign here"), IntVal(7)})}

SampleValues == Scalars \cup Structured

\* The named-argument mappings: one argument, or two arguments with
\* different names, the second one without structure.
Mappings ==
    {<<Entry(k, v)>> : k \in SampleKeys, v \in SampleValues}
    \cup {<<Entry(k[1], v), Entry(k[2], w)>> :
            k \in {x \in SampleKeys \X SampleKeys : x[1] # x[2]},
            v \in SampleValues, w \in Scalars}

InitFilter ==
    /\ Quiet
    /\ norm = NoNorm /\ owner = NoOwner /\ running = NotRunning /\ looked = NotLooked
    /\ InitMore
    /\ \E ignore_args \in IgnoreArgs, args_dict \in Mappings :
          filt = [NoFilt EXCEPT !.phase = "given", !.ignore_args = ignore_args,
                                   !.args_dict = args_dict]

\* ArgumentFilter(config).filter_args_dict(args_dict)
Filter ==
    /\ filt.phase = "given"
    /\ filt' = [filt EXCEPT !.phase = "filtered",
                            !.once = filtered_dict(filt.ignore_args, filt.args_dict)]
    /\ UNCHANGED <<programVars, norm, owner, running, looked, moreVars>>

\* filter_args_dict applied to its own output.
FilterAgain ==
    /\ filt.phase = "filtered"
    /\ filt' = [filt EXCEPT !.phase = "again",
                            !.twice = filtered_dict(filt.ignore_args, filt.once)]
    /\ UNCHANGED <<programVars, norm, owner, running, looked, moreVars>>

NextFilter == Filter \/ FilterAgain

SpecFilter == InitFilter /\ [][NextFilter]_vars

\* ------------------------------------------------- normalize and replay
\* The names a call passes keyword arguments under.
KeywordNames == <<"a", "b", "c", "token">>

\* The calls: n positional arguments 1..n, and keyword arguments under some
\* of the names, the keyword at place i with the value 10 + i.
CallArgs == {[i \in 1..n |-> IntVal(i)] : n \in 0..MaxArgs}
CallKwargs == {SelectSeq([i \in DOMAIN KeywordNames |-> Entry(KeywordNames[i], IntVal(10 + i))],
                         LAMBDA e : e.key \in K) :
               K \in SUBSET {KeywordNames[i] : i \in DOMAIN KeywordNames}}

\* The ignore_args of the configuration that is in force unless the
\* environment names another: SNAP_CAPTURE_IGNORE_ARGS's default.
DefaultIgnoreArgs == <<"password", "token", "secret", "key", "auth">>

InitNorm ==
    /\ Quiet
    /\ owner = NoOwner
    /\ running = NotRunning
    /\ filt = NoFilt
    /\ looked = NotLooked
    /\ InitMore
    /\ \E sig \in Signatures, args \in CallArgs, kwargs \in CallKwargs :
          norm = [NoNorm EXCEPT !.phase = "call", !.sig = sig, !.args = args,
                                !.kwargs = kwargs]

\* _capture_arguments up to the save: the arguments are named, then
\* filtered; the filtered mapping is what the record holds.
Normalize ==
    /\ norm.phase = "call"
    /\ norm' = [norm EXCEPT
                   !.phase = "named",
                   !.named = named_args(norm.sig, norm.args, norm.kwargs),
                   !.stored = filtered_dict(DefaultIgnoreArgs,
                                            named_args(norm.sig, norm.args, norm.kwargs))]
    /\ UNCHANGED <<programVars, owner, running, filt, looked, moreVars>>

\* CapturedCall.args: tuple(self.args_dict.values()); CapturedCall.kwargs: {}.
captured_args(args_dict) == [i \in DOMAIN args_dict |-> args_dict[i].value]

\* The record is loaded and the function is called again: as
\* func(*args, **kwargs) with the (args, kwargs) of CaptureLoader.load_latest,
\* and as func(**args_dict) with the named mapping.
Replay ==
    /\ norm.phase = "named"
    /\ norm' = [norm EXCEPT
                   !.phase = "replayed",
                   !.positional = bind(norm.sig, captured_args(norm.stored), << >>),
                   !.bykey = bind(norm.sig, << >>, norm.stored)]
    /\ UNCHANGED <<programVars, owner, running, filt, looked, moreVars>>

NextNorm == Normalize \/ Replay

SpecNorm == InitNorm /\ [][NextNorm]_vars

\* ---------------------------------------------------- function identity
\* The decorated functions of a program: module and qualified name.  Three
\* of them are called f: two in different modules, one a method of class A.
Funcs == {[module |-> "m1", qualname |-> <<"f">>],
          [module |-> "m2", qualname |-> <<"f">>],
          [module |-> "m1", qualname |-> <<"A", "f">>],
          [module |-> "m1", qualname |-> <<"f_x">>]}

\* func.__name__: the last part of the qualified name.
__name__(func) == func.qualname[Len(func.qualname)]

\* capture_args.decorator: function_name = func.__name__ is the only part of
\* the function that reaches the store.
function_name_of(func) == __name__(func)

\* CaptureHandler.get_func_path_id: the module's parts, then the qualified
\* name as one path component.
get_func_path_id(func) == <<func.module, func.qualname>>

\* One call of a function decorated with capture_args; all decorations
\* share the storage root.
DecoratedCall(func, retention, overwrite) ==
    /\ calls < MaxCalls
    /\ \E r \in _capture_and_call_sync(files, function_name_of(func), now, calls + 1,
                                       retention, overwrite, "none",
                                       [raised |-> FALSE, value |-> "r1"]) :
        files' = r.files
    /\ calls' = calls + 1
    /\ owner' = Append(owner, func)
    /\ UNCHANGED <<impl, now, garbage, story, last, wrapVars, threadVars, norm, running, filt, looked, moreVars>>

TickIdentity == Tick /\ UNCHANGED <<wrapVars, threadVars, pureVars>>

InitIdentity == Quiet /\ InitPure

NextIdentity ==
    \/ TickIdentity
    \/ \E func \in Funcs, k \in Retentions, ow \in BOOLEAN : DecoratedCall(func, k, ow)

SpecIdentity == InitIdentity /\ [][NextIdentity]_vars

\* ------------------------------------------------ a decorated call in steps
\* The wrapper of capture_args up to the call of the function: the arguments
\* are captured inside try/except, then func(*args, **kwargs) starts.
EnterCaptureArgs(wrapper, function_name, retention, overwrite, fault) ==
    /\ running.phase = "idle"
    /\ calls < MaxWrapped
    /\ \E c \in _capture_arguments(files, function_name, now, calls + 1, retention,
                                   overwrite, fault) :
        /\ ~except_Exception(c).raised
        /\ files' = c.files
    /\ calls' = calls + 1
    /\ running' = [NotRunning EXCEPT !.phase = "running", !.wrapper = wrapper,
                                     !.fn = function_name, !.arg = calls + 1,
                                     !.retention = retention, !.overwrite = overwrite,
                                     !.fault = fault,
                                     !.entry_files = files, !.entry_time = now]
    /\ UNCHANGED <<impl, now, garbage, story, last, wrapVars, threadVars, norm, owner, filt, looked, moreVars>>

\* A wrapper that takes back the record of a call whose function raised.
LeaveRollingBack(func) ==
    /\ running.phase = "running"
    /\ running.wrapper \in {"sync_wrapper", "async_wrapper"}
    /\ running' = NotRunning
    /\ wrapped' = [wrapper |-> running.wrapper, invoked |-> 1, result |-> func,
                   func |-> func, failed |-> FALSE]
    /\ files' = IF func.raised THEN running.entry_files ELSE files
    /\ UNCHANGED <<impl, now, calls, garbage, story, last, blobs, threadVars, norm, owner, filt, looked, moreVars>>

\* The function returns or raises, and with it the wrapper of capture_args.
LeaveCaptureArgs(func) ==
    /\ running.phase = "running"
    /\ running.wrapper \in {"sync_wrapper", "async_wrapper"}
    /\ running' = NotRunning
    /\ wrapped' = [wrapper |-> running.wrapper, invoked |-> 1, result |-> func,
                   func |-> func, failed |-> FALSE]
    /\ UNCHANGED <<storeVars, story, last, blobs, threadVars, norm, owner, filt, looked, moreVars>>

\* The wrapper of `capture` up to the call of the function: func(*args,
\* **kwargs) is its first statement.
EnterCapture(enabled, max_captures, fault) ==
    /\ running.phase = "idle"
    /\ calls < MaxWrapped
    /\ calls' = calls + 1
    /\ running' = [NotRunning EXCEPT !.phase = "running", !.wrapper = "capture",
                                     !.arg = calls + 1, !.enabled = enabled,
                                     !.max_captures = max_captures, !.fault = fault,
                                     !.entry_files = files, !.entry_time = now]
    /\ UNCHANGED <<impl, now, files, garbage, story, last, wrapVars, threadVars, norm,
                   owner, filt, looked, moreVars>>

\* The function returns or raises; the wrapper of `capture` records a call
\* that returned and hands on the result.
LeaveCapture(func) ==
    /\ running.phase = "running"
    /\ running.wrapper = "capture"
    /\ LET r == capture(blobs, running.enabled, running.max_captures, running.arg, now,
                        running.fault, func) IN
        /\ blobs' = r.blobs
        /\ wrapped' = [wrapper |-> "capture", invoked |-> r.invoked, result |-> r.result,
                       func |-> func, failed |-> r.failed]
    /\ running' = NotRunning
    /\ UNCHANGED <<storeVars, story, last, threadVars, norm, owner, filt, looked, moreVars>>

TickCall == Tick /\ UNCHANGED <<wrapVars, threadVars, pureVars>>

InitCall == Quiet /\ InitPure

NextCall ==
    \/ TickCall
    \/ \E w \in {"sync_wrapper", "async_wrapper"}, f \in FuncNames, k \in Retentions,
          ow \in BOOLEAN, fault \in Faults : EnterCaptureArgs(w, f, k, ow, fault)
    \/ \E func \in FuncOutcomes : LeaveCaptureArgs(func)
    \/ \E enabled \in BOOLEAN, m \in 1..MaxCaptures, fault \in Faults :
          EnterCapture(enabled, m, fault)
    \/ \E func \in FuncOutcomes : LeaveCapture(func)

SpecCall == InitCall /\ [][NextCall]_vars

\* ------------------------------------------------------ side-effect lookup
\* What side_effect_lookup hands to its caller.
Found(result) == [raised |-> FALSE, exc |-> "", value |-> result, found |-> TRUE]
NotFound == [raised |-> FALSE, exc |-> "", value |-> "None", found |-> FALSE]
Raised(exc) == [raised |-> TRUE, exc |-> exc, value |-> "", found |-> FALSE]

\* The built-in exceptions that are LookupErrors.
LookupErrors == {"LookupError", "IndexError", "KeyError"}

\* side_effect_lookup: the blobs of the folder are loaded one by one, in the
\* order the glob yields them, until one holds the arguments; its result is
\* returned.  Loading an unfinished blob raises.  When none matched, the
\* test mode decides between a ValueError and (None, False).  Every outcome
\* some order of the glob gives.
side_effect_lookup(bs, arg, test_mode) ==
    LET matching == {n \in DOMAIN bs : bs[n].complete /\ bs[n].arg = arg}
        unfinished == {n \in DOMAIN bs : ~bs[n].complete}
    IN  {Found(bs[n].result) : n \in matching}
        \cup (IF unfinished # {} THEN {Raised("EOFError")} ELSE {})
        \cup (IF matching # {} \/ unfinished # {} THEN {}
              ELSE IF test_mode THEN {Raised("ValueError")}
              ELSE {NotFound})

\* One call of side_effect_lookup, with SIDE_EFFECT_TEST_MODE set to "1" or
\* not.
Lookup(arg, test_mode) ==
    /\ \E o \in side_effect_lookup(blobs, arg, test_mode) :
          looked' = [arg |-> arg, strict |-> test_mode, raised |-> o.raised,
                     exc |-> o.exc, value |-> o.value, found |-> o.found]
    /\ UNCHANGED <<programVars, norm, owner, running, filt, moreVars>>

\* The arguments looked up: those of the recorded calls, and others.
LookupArgs == 1..(MaxWrapped + 1)

TickLookup == Tick /\ UNCHANGED <<wrapVars, threadVars, pureVars>>

InitLookup == Quiet /\ InitPure

NextLookup ==
    \/ TickLookup
    \/ \E enabled \in BOOLEAN, m \in 1..MaxCaptures, fault \in Faults,
          func \in FuncOutcomes : CaptureWrapper(enabled, m, fault, func) /\ UNCHANGED pureVars
    \/ \E arg \in LookupArgs, test_mode \in BOOLEAN : Lookup(arg, test_mode)

SpecLookup == InitLookup /\ [][NextLookup]_vars

\* ------------------------------------------------------ side-effect mock
\* The arguments the mock is called with.
MockArgs == 1..MaxMockArgs

\* max_captures = float("inf"): a limit no number of blobs reaches.
inf(bs) == Cardinality(DOMAIN bs) + 1

\* The arguments of a call when the real function has returned: the objects
\* the caller passed, as they were or as the function changed them (a list
\* it appended to).
args_after(arg, mutates) == IF mutates THEN arg + MaxMockArgs ELSE arg

\* plus_mock: side_effect_lookup without test mode; a hit is returned, on a
\* miss the real function is called through a wrapper decorated with
\* capture(max_captures=float("inf")) on the same folder.  The mock object
\* notes the call before its side effect runs.  The wrapper records the
\* arguments as they are once the real function has returned.
MockCallOf(arg, enabled, fault, func, mutates) ==
    /\ Len(mock.calls) < MaxWrapped
    /\ mock.verdict = "none"
    /\ \E o \in side_effect_lookup(blobs, arg, FALSE) :
          /\ looked' = [arg |-> arg, strict |-> FALSE, raised |-> o.raised,
                        exc |-> o.exc, value |-> o.value, found |-> o.found]
          /\ IF o.found \/ o.raised
             THEN /\ mock' = [mock EXCEPT !.calls = Append(@, arg)]
                  /\ UNCHANGED wrapVars
             ELSE LET r == capture(blobs, enabled, inf(blobs), args_after(arg, mutates), now,
                                  fault, func) IN
                  /\ blobs' = r.blobs
                  /\ wrapped' = [wrapper |-> "capture", invoked |-> r.invoked,
                                 result |-> r.result, func |-> func, failed |-> r.failed]
                  /\ mock' = [mock EXCEPT
                        !.calls = Append(@, arg),
                        !.recorded =
                            IF Ms(now) \in DOMAIN r.blobs /\ r.blobs[Ms(now)].complete
                               /\ r.blobs[Ms(now)].arg = arg /\ r.blobs # blobs
                            THEN [a \in DOMAIN @ \cup {arg} |->
                                    IF a = arg THEN func.value ELSE @[a]]
                            ELSE @]
    /\ UNCHANGED <<storeVars, story, last, threadVars, norm, owner, running, filt, traceVars, cfg, extraVars>>

\* A call of the mock whose real function leaves its arguments as they are.
MockCall(arg, enabled, fault, func) == MockCallOf(arg, enabled, fault, func, FALSE)

\* Mock.assert_called_with: the arguments are those of the mock's last call.
assert_called_with(mock_calls, arg) ==
    mock_calls # << >> /\ mock_calls[Len(mock_calls)] = arg

\* assert_side_effect_calls: every blob of the folder is loaded and
\* magic_mock.assert_called_with is given its arguments; the first failing
\* assertion or unfinished blob ends it.  Every outcome some order of the
\* glob gives.
assert_side_effect_calls(bs, mock_calls) ==
    LET unfinished == {n \in DOMAIN bs : ~bs[n].complete}
        failing == {n \in DOMAIN bs : bs[n].complete
                                      /\ ~assert_called_with(mock_calls, bs[n].arg)}
    IN  (IF unfinished # {} THEN {"EOFError"} ELSE {})
        \cup (IF failing # {} THEN {"AssertionError"} ELSE {})
        \cup (IF unfinished = {} /\ failing = {} THEN {"passed"} ELSE {})

\* The test calls assert_side_effect_calls once the code under test has
\* used the mock.
AssertSideEffectCalls ==
    /\ mock.verdict = "none"
    /\ \E v \in assert_side_effect_calls(blobs, mock.calls) :
          mock' = [mock EXCEPT !.verdict = v]
    /\ UNCHANGED <<programVars, norm, owner, running, filt, looked, traceVars, cfg, extraVars>>

\* The next test: a new mock object, the folder as the tests before left it.
NextTest ==
    /\ mock.verdict # "none"
    /\ mock' = [mock EXCEPT !.calls = << >>, !.verdict = "none"]
    /\ UNCHANGED <<programVars, norm, owner, running, filt, looked, traceVars, cfg, extraVars>>

\* A side_effect_lookup on the mock's folder, test mode off.
MockLookup(arg) == Lookup(arg, FALSE)

TickMock == Tick /\ UNCHANGED <<wrapVars, threadVars, pureVars>>

InitMock == Quiet /\ InitPure

NextMock ==
    \/ TickMock
    \/ \E arg \in MockArgs, enabled \in BOOLEAN, fault \in Faults, func \in FuncOutcomes :
          MockCall(arg, enabled, fault, func)
    \/ \E arg \in MockArgs : MockLookup(arg)
    \/ AssertSideEffectCalls
    \/ NextTest

SpecMock == InitMock /\ [][NextMock]_vars

\* The code under test calls the mock, and nothing else touches the folder.
NextReplay ==
    \/ TickMock
    \/ \E arg \in MockArgs, enabled \in BOOLEAN, fault \in Faults, func \in FuncOutcomes,
          mutates \in BOOLEAN : MockCallOf(arg, enabled, fault, func, mutates)

SpecReplay == InitMock /\ [][NextReplay]_vars

\* ------------------------------------------------------------- tracer
Tracers == {"a", "b"}

\* What sys.gettrace() can be: nothing, the hook of a debugger or coverage
\* tool, or a tracer's trace_function (named by its tracer).
Hooks == {"None", "other"} \cup Tracers

\* Functions of the traced code; "lib" lives under site-packages.
TestFns == {"outer", "inner"}
TracedFns == TestFns \cup {"lib"}

\* Functions of the tracer's own module.
TracerFns == {"start_tracing", "stop_tracing", "clear", "__enter__", "__exit__"}

\* should_trace_frame: not a file of the system or of site-packages, not a
\* special method, and in one of filter_modules when that is given.
should_trace_frame(tr, function_name) ==
    /\ function_name # "lib"
    /\ function_name \notin {"__enter__", "__exit__"}
    /\ tr.filtered => function_name \in TestFns

\* What a function hands back. The return event of a frame that an
\* exception leaves carries None.
ReturnValues == {"value"}

CallEvent(event_type, function_name, return_value, depth) ==
    [event_type |-> event_type, function_name |-> function_name,
     return_value |-> return_value, depth |-> depth]

\* The depth trace_function gives a return event: depth - 1, depth being
\* the length of the call stack before the pop.
return_depth(depth) == depth - 1

\* trace_function: a call event is appended and pushed with the length of
\* the call stack as its depth; a return event pops the call stack, if it
\* is not empty, and is appended; other events are ignored.
trace_function(tr, function_name, event, arg) ==
    IF ~should_trace_frame(tr, function_name) THEN tr
    ELSE LET depth == Len(tr.call_stack) IN
         IF event = "call"
         THEN LET call_event == CallEvent("call", function_name, "None", depth) IN
              [tr EXCEPT !.events = Append(@, call_event),
                         !.call_stack = Append(@, call_event)]
         ELSE IF event = "return" /\ tr.call_stack # << >>
         THEN [tr EXCEPT !.call_stack = SubSeq(@, 1, Len(@) - 1),
                         !.events = Append(@, CallEvent("return", function_name, arg,
                                                        return_depth(depth)))]
         ELSE tr

\* The interpreter enters a function: the thread's trace hook gets the call
\* event, and what it returns becomes the frame's local trace function.
PyCall(st, function_name) ==
    [st EXCEPT
        !.frames = Append(@, [fn |-> function_name, f_trace |-> st.hook]),
        !.tracers = IF st.hook \in Tracers
                    THEN [@ EXCEPT ![st.hook] = trace_function(@, function_name, "call", "None")]
                    ELSE @]

\* The interpreter leaves the innermost frame: while the thread has a trace
\* hook, the frame's local trace function gets the return event with what
\* the function returns.
PyReturn(st, arg) ==
    LET frame == st.frames[Len(st.frames)] IN
    [st EXCEPT
        !.frames = SubSeq(@, 1, Len(@) - 1),
        !.tracers = IF st.hook # "None" /\ frame.f_trace \in Tracers
                    THEN [@ EXCEPT ![frame.f_trace] = trace_function(@, frame.fn, "return", arg)]
                    ELSE @]

\* An interpreter that reports no return event for a frame an exception
\* leaves.
PyUnwindSilent(st) == [st EXCEPT !.frames = SubSeq(@, 1, Len(@) - 1)]

\* The innermost frame is left by an exception: the local trace function
\* gets a return event with the argument None.
PyUnwind(st) == PyReturn(st, "None")

\* The body of start_tracing.
start_tracing_body(st, t) ==
    IF ~st.tracers[t].is_tracing
    THEN [st EXCEPT !.hook = t,
                    !.tracers[t] = [@ EXCEPT !.original_trace = st.hook,
                                             !.is_tracing = TRUE,
                                             !.events = << >>,
                                             !.call_stack = << >>]]
    ELSE st

\* The body of stop_tracing.
stop_tracing_body(st, t) ==
    IF st.tracers[t].is_tracing
    THEN [st EXCEPT !.hook = st.tracers[t].original_trace,
                    !.tracers[t] = [@ EXCEPT !.is_tracing = FALSE]]
    ELSE st

\* The calls tracer.start_tracing() and tracer.stop_tracing(), and the
\* methods of the context manager that make them.
start_tracing(st, t) ==
    PyReturn(start_tracing_body(PyCall(st, "start_tracing"), t), "None")
stop_tracing(st, t) ==
    PyReturn(stop_tracing_body(PyCall(st, "stop_tracing"), t), "None")
__enter__(st, t) == PyReturn(start_tracing(PyCall(st, "__enter__"), t), "value")
__exit__(st, t) == PyReturn(stop_tracing(PyCall(st, "__exit__"), t), "value")

\* What __exit__ returns.
exit_result == FALSE

\* The open frames of the traced code.
Depth(st) == Len(SelectSeq(st.frames, LAMBDA frame : frame.fn \in TracedFns))

\* A with-block that is open in the innermost frame.
BlockHere == blocks # << >> /\ blocks[Len(blocks)].depth = Len(py.frames)

\* One of the calls and with-blocks the run has left is used.
Step(st) == [st EXCEPT !.steps = @ - 1]

snapIdle == <<programVars, norm, owner, running, filt, looked, mock, cfg, extraVars>>
traceIdle == <<snapIdle, traces>>

\* `with tracer:` is entered.
EnterWith(t) ==
    /\ ~py.exc /\ py.steps > 0
    /\ py' = Step(__enter__(py, t))
    /\ blocks' = Append(blocks, [t |-> t, hook |-> py.hook, depth |-> Len(py.frames),
                                 by |-> "test", before |-> << >>])
    /\ UNCHANGED traceIdle

\* The with-block is left at its end.
ExitWith ==
    /\ ~py.exc /\ BlockHere /\ blocks[Len(blocks)].by = "test"
    /\ py' = __exit__(py, blocks[Len(blocks)].t)
    /\ blocks' = SubSeq(blocks, 1, Len(blocks) - 1)
    /\ UNCHANGED traceIdle

\* The with-block is left by an exception, which goes on unless __exit__
\* returns a true value.
ExitWithRaising ==
    /\ py.exc /\ BlockHere /\ blocks[Len(blocks)].by = "test"
    /\ py' = [__exit__(py, blocks[Len(blocks)].t) EXCEPT !.exc = ~exit_result]
    /\ blocks' = SubSeq(blocks, 1, Len(blocks) - 1)
    /\ UNCHANGED traceIdle

\* The code calls a function.
CallFunction(function_name) ==
    /\ ~py.exc /\ py.steps > 0 /\ Depth(py) < MaxDepth
    /\ py' = Step(PyCall(py, function_name))
    /\ UNCHANGED <<blocks, traceIdle>>

\* The innermost function returns.
ReturnFunction ==
    /\ ~py.exc /\ py.frames # << >> /\ ~BlockHere
    /\ \E arg \in ReturnValues : py' = PyReturn(py, arg)
    /\ UNCHANGED <<blocks, traceIdle>>

\* The code raises an exception.
RaiseException ==
    /\ ~py.exc /\ (py.frames # << >> \/ blocks # << >>)
    /\ py' = [py EXCEPT !.exc = TRUE]
    /\ UNCHANGED <<blocks, traceIdle>>

\* The exception leaves the innermost function.
UnwindFrame ==
    /\ py.exc /\ py.frames # << >> /\ ~BlockHere
    /\ py' = PyUnwind(py)
    /\ UNCHANGED <<blocks, traceIdle>>

\* An except clause of the innermost function, or of the test when no
\* function is open, handles the exception.
CatchException ==
    /\ py.exc /\ ~BlockHere
    /\ py' = [py EXCEPT !.exc = FALSE]
    /\ UNCHANGED <<blocks, traceIdle>>

\* The test creates its tracers, with or without filter_modules, under no
\* hook or under the hook of another tool.
InitTrace ==
    /\ Quiet
    /\ norm = NoNorm /\ owner = NoOwner /\ running = NotRunning /\ filt = NoFilt
    /\ looked = NotLooked /\ mock = NoMock
    /\ InitExtra
    /\ blocks = NoBlocks
    /\ traces = NoTraces
    /\ cfg = NoCfg
    /\ \E hook \in {"None", "other"}, fa, fb \in BOOLEAN :
          py = [NoPy EXCEPT !.hook = hook, !.steps = MaxTraced,
                            !.tracers = [t \in Tracers |->
                                NewTracer(IF t = "a" THEN fa ELSE fb)]]

NextTrace ==
    \/ \E t \in Tracers : EnterWith(t)
    \/ ExitWith
    \/ ExitWithRaising
    \/ \E function_name \in TracedFns : CallFunction(function_name)
    \/ ReturnFunction
    \/ RaiseException
    \/ UnwindFrame
    \/ CatchException

SpecTrace == InitTrace /\ [][NextTrace]_vars

\* A shorter run of the same test.
InitRaise ==
    /\ Quiet
    /\ norm = NoNorm /\ owner = NoOwner /\ running = NotRunning /\ filt = NoFilt
    /\ looked = NotLooked /\ mock = NoMock
    /\ InitExtra
    /\ blocks = NoBlocks
    /\ traces = NoTraces
    /\ cfg = NoCfg
    /\ \E hook \in {"None", "other"}, fa, fb \in BOOLEAN :
          py = [NoPy EXCEPT !.hook = hook, !.steps = MaxRaised,
                            !.tracers = [t \in Tracers |->
                                NewTracer(IF t = "a" THEN fa ELSE fb)]]

SpecRaise == InitRaise /\ [][NextTrace]_vars

\* ------------------------------------------------ tracers used by hand
\* The body of clear.
clear_body(st, t) ==
    [st EXCEPT !.tracers[t] = [@ EXCEPT !.events = << >>, !.call_stack = << >>]]

\* The call tracer.clear().
clear(st, t) == PyReturn(clear_body(PyCall(st, "clear"), t), "None")

\* The code calls tracer.start_tracing().
StartTracing(t) ==
    /\ ~py.exc /\ py.steps > 0
    /\ py' = Step(start_tracing(py, t))
    /\ UNCHANGED <<blocks, traceIdle>>

\* The code calls tracer.stop_tracing().
StopTracing(t) ==
    /\ ~py.exc /\ py.steps > 0
    /\ py' = Step(stop_tracing(py, t))
    /\ UNCHANGED <<blocks, traceIdle>>

\* The code calls tracer.clear().
Clear(t) ==
    /\ ~py.exc /\ py.steps > 0
    /\ py' = Step(clear(py, t))
    /\ UNCHANGED <<blocks, traceIdle>>

\* The test and the functions it calls start, stop and clear the tracers
\* where they like.
NextSession ==
    \/ \E t \in Tracers : StartTracing(t)
    \/ \E t \in Tracers : StopTracing(t)
    \/ \E t \in Tracers : Clear(t)
    \/ \E function_name \in TracedFns : CallFunction(function_name)
    \/ ReturnFunction

SpecSession == InitRaise /\ [][NextSession]_vars

\* ------------------------------------------------------ traced snapshot
\* The tracer of the TracedSnapshot; the test holds it too and may use it.
SnapshotTracer == "a"

\* get_trace: a copy of the events.
get_trace(tr) == tr.events

\* capture_trace up to the call of func: the with-block of the snapshot's
\* tracer is entered. The block keeps the events the tracer held if it was
\* tracing when capture_trace was called.
BeginCapture ==
    /\ ~py.exc /\ py.steps > 0
    /\ LET called == PyCall(py, "capture_trace")
           tr == py.tracers[SnapshotTracer]
       IN  /\ py' = Step(__enter__(called, SnapshotTracer))
           /\ blocks' = Append(blocks,
                  [t |-> SnapshotTracer, hook |-> called.hook,
                   depth |-> Len(called.frames), by |-> "capture_trace",
                   before |-> IF tr.is_tracing THEN tr.events ELSE << >>])
    /\ UNCHANGED traceIdle

\* func has returned: the with-block is left, the trace is fetched and
\* stored, capture_trace returns the result.
EndCapture ==
    /\ ~py.exc /\ BlockHere /\ blocks[Len(blocks)].by = "capture_trace"
    /\ LET left == __exit__(py, SnapshotTracer)
           called == PyCall(left, "get_trace")
           trace == get_trace(called.tracers[SnapshotTracer])
       IN  /\ traces' = Append(traces, trace)
           /\ py' = PyReturn(PyReturn(called, "value"), "value")
    /\ blocks' = SubSeq(blocks, 1, Len(blocks) - 1)
    /\ UNCHANGED snapIdle

\* func has raised: the with-block is left and the exception leaves
\* capture_trace.
EndCaptureRaising ==
    /\ py.exc /\ BlockHere /\ blocks[Len(blocks)].by = "capture_trace"
    /\ LET left == [__exit__(py, SnapshotTracer) EXCEPT !.exc = ~exit_result] IN
       py' = IF left.exc THEN PyUnwind(left) ELSE left
    /\ blocks' = SubSeq(blocks, 1, Len(blocks) - 1)
    /\ UNCHANGED traceIdle

\* format_all_traces: a section per stored trace, labelled from 1.
format_all_traces(stored) ==
    [i \in DOMAIN stored |-> [label |-> i, trace |-> stored[i]]]

NextSnapshot ==
    \/ BeginCapture
    \/ EndCapture
    \/ EndCaptureRaising
    \/ NextTrace

SpecSnapshot == InitRaise /\ [][NextSnapshot]_vars

\* ------------------------------------------------ global configuration
\* Storage paths: the default one and the one a context or a test names.
Paths == {"root", "P"}

\* An optional bool / path argument: not given, or a value.
OptBool == {"None", "True", "False"}
OptPath == {"None", "P"}

CaptureConfig(id, enabled, default_path) ==
    [id |-> id, enabled |-> enabled, default_path |-> default_path]

\* from_env_file with no .env file and no variable set: the defaults.
from_env_file(id) == CaptureConfig(id, TRUE, "root")

\* copy.deepcopy of a configuration: a new object with equal fields.
deepcopy(config, id) == [config EXCEPT !.id = id]

\* get_global_config run at once: the module after the call; its global is
\* what the call returns.
get_global_config(c) ==
    IF c.global = NoConfig
    THEN [c EXCEPT !.global = from_env_file(c.made + 1), !.made = @ + 1]
    ELSE c

set_global_config(c, config) == [c EXCEPT !.global = config]

\* CaptureContext.__enter__: the global is kept as _original_config; with
\* an override given, a deep copy of the global configuration with the
\* overrides applied becomes the global one.
CaptureContext_enter(c, enabled, path) ==
    LET original == c.global
        got == get_global_config(c)
        copied == deepcopy(got.global, got.made + 1)
        new_config ==
            [copied EXCEPT
                !.enabled = IF enabled = "None" THEN @ ELSE enabled = "True",
                !.default_path = IF path = "None" THEN @ ELSE path]
        entered == IF enabled # "None" \/ path # "None"
                   THEN [set_global_config(got, new_config) EXCEPT !.made = @ + 1]
                   ELSE c
    IN  [entered EXCEPT !.stack = Append(@, [_original_config |-> original,
                                             enabled |-> enabled,
                                             path |-> path])]

\* CaptureContext.__exit__: the global is set back when _original_config
\* is not None; the result is None, so an exception goes on.
CaptureContext_exit(c) ==
    LET ctx == c.stack[Len(c.stack)]
        restored == IF ctx._original_config # NoConfig
                    THEN set_global_config(c, ctx._original_config)
                    ELSE c
    IN  [restored EXCEPT !.stack = SubSeq(@, 1, Len(@) - 1)]

\* A function value: the storage paths of the capture wrappers around the
\* original function, innermost first.
Plain == << >>

\* capture_args(enabled=...)(func): the configuration is looked up when the
\* decorator runs; a disabled capture gives func back unchanged, otherwise
\* a wrapper around func bound to a storage at the configuration's path.
capture_args(c, enabled, func) ==
    LET got == get_global_config(c)
        effective_config == got.global
        capture_enabled == IF enabled = "None" THEN effective_config.enabled
                           ELSE enabled = "True"
    IN  [c |-> got,
         func |-> IF ~capture_enabled THEN func
                  ELSE Append(func, effective_config.default_path)]

disable_capture(c, func) == capture_args(c, "False", func)

\* The decorations a module puts on a function: @capture_args(),
\* @disable_capture(), and @disable_capture() on top of @capture_args().
Decorations == {"capture_args", "disable_capture", "disable_capture_on_capture_args"}

Decorated(c, decoration) ==
    IF decoration = "capture_args" THEN capture_args(c, "None", Plain)
    ELSE IF decoration = "disable_capture" THEN disable_capture(c, Plain)
    ELSE LET inner == capture_args(c, "None", Plain) IN
         disable_capture(inner.c, inner.func)

\* A call of the function value: every wrapper saves a record in its
\* storage, then the function runs.
Records(fn, func) == {[fn |-> fn, path |-> func[i]] : i \in DOMAIN func}

cfgIdle == <<programVars, norm, owner, running, filt, looked, mock, traceVars, extraVars>>

\* A `with CaptureContext(enabled=..., path=...):` block is entered.
EnterContext(enabled, path) ==
    /\ Len(cfg.stack) < MaxContexts /\ cfg.made + 2 <= MaxConfigs
    /\ cfg' = CaptureContext_enter(cfg, enabled, path)
    /\ UNCHANGED cfgIdle

\* The innermost block is left, at its end or by an exception.
ExitContext ==
    /\ cfg.stack # << >>
    /\ cfg' = CaptureContext_exit(cfg)
    /\ UNCHANGED cfgIdle

\* A def statement with decorators runs.
Decorate(fn, decoration) ==
    /\ cfg.fns[fn].decoration = "none" /\ cfg.made < MaxConfigs
    /\ LET made == Decorated(cfg, decoration) IN
       cfg' = [made.c EXCEPT !.fns[fn] = [decoration |-> decoration,
                                          func |-> made.func]]
    /\ UNCHANGED cfgIdle

\* A decorated function is called.
CallDecorated(fn) ==
    /\ cfg.fns[fn].decoration # "none"
    /\ cfg' = [cfg EXCEPT !.records = @ \cup Records(fn, cfg.fns[fn].func)]
    /\ UNCHANGED cfgIdle

\* The program starts with no global configuration, or with one the test
\* set.
InitContext ==
    /\ Quiet
    /\ norm = NoNorm /\ owner = NoOwner /\ running = NotRunning /\ filt = NoFilt
    /\ looked = NotLooked /\ mock = NoMock
    /\ InitExtra
    /\ py = NoPy /\ blocks = NoBlocks /\ traces = NoTraces
    /\ \/ cfg = NoCfg
       \/ \E enabled \in BOOLEAN, path \in Paths :
             cfg = [set_global_config(NoCfg, CaptureConfig(1, enabled, path))
                        EXCEPT !.made = 1]

NextContext ==
    \/ \E enabled \in OptBool, path \in OptPath : EnterContext(enabled, path)
    \/ ExitContext
    \/ \E fn \in CfgFns, decoration \in Decorations : Decorate(fn, decoration)
    \/ \E fn \in CfgFns : CallDecorated(fn)

SpecContext == InitContext /\ [][NextContext]_vars

\* get_global_config in the steps of a thread. The test of the global:
\* the thread will make the configuration if there is none.
GetCheck(th) ==
    /\ cfg.threads[th].pc = "idle"
    /\ cfg' = [cfg EXCEPT
                  !.threads[th].pc = IF cfg.global = NoConfig THEN "make" ELSE "return",
                  !.threads[th].since = cfg.epoch]
    /\ UNCHANGED cfgIdle

\* _global_config = CaptureConfig.from_env_file()
GetMake(th) ==
    /\ cfg.threads[th].pc = "make" /\ cfg.made < MaxConfigs
    /\ cfg' = [cfg EXCEPT !.global = from_env_file(cfg.made + 1),
                          !.made = @ + 1,
                          !.threads[th].pc = "return"]
    /\ UNCHANGED cfgIdle

\* return _global_config: the global is read again.
GetReturn(th) ==
    /\ cfg.threads[th].pc = "return"
    /\ cfg' = [cfg EXCEPT !.threads[th].pc = "done",
                          !.threads[th].result = cfg.global]
    /\ UNCHANGED cfgIdle

\* The thread is about to ask again.
GetAgain(th) ==
    /\ cfg.threads[th].pc = "done"
    /\ cfg' = [cfg EXCEPT !.threads[th] = NoCfg.threads[th]]
    /\ UNCHANGED cfgIdle

\* set_global_config(c) with a configuration made for it; the calls made
\* so far are counted in epoch.
SetGlobalConfig(enabled) ==
    /\ cfg.made < MaxConfigs
    /\ LET c == CaptureConfig(cfg.made + 1, enabled, "root") IN
       cfg' = [set_global_config(cfg, c) EXCEPT !.made = @ + 1, !.set = c,
                                               !.epoch = @ + 1]
    /\ UNCHANGED cfgIdle

InitGlobal ==
    /\ Quiet
    /\ norm = NoNorm /\ owner = NoOwner /\ running = NotRunning /\ filt = NoFilt
    /\ looked = NotLooked /\ mock = NoMock
    /\ InitExtra
    /\ py = NoPy /\ blocks = NoBlocks /\ traces = NoTraces
    /\ cfg = NoCfg

NextGlobal ==
    \/ \E th \in Threads : GetCheck(th)
    \/ \E th \in Threads : GetMake(th)
    \/ \E th \in Threads : GetReturn(th)
    \/ \E th \in Threads : GetAgain(th)
    \/ \E enabled \in BOOLEAN : SetGlobalConfig(enabled)

SpecGlobal == InitGlobal /\ [][NextGlobal]_vars

\* ------------------------------------------- threads on one capture folder
\* The arguments looked up: those of the threads' first calls, and another.
HandArgs == {10 * t : t \in Callers} \cup {0}

\* Everything but the folder, the clock and the threads.
handIdle == <<impl, files, calls, garbage, story, last, wrapped, threadVars, norm, owner,
              running, filt, looked, mock, traceVars, cfg, all>>

\* A thread calls the function decorated with capture(max_captures=M), the
\* environment flag set: the function runs and returns, then the wrapper is
\* about to count the blobs.  The argument is the number of the call.
CallCaptured(t) ==
    /\ hand.caller[t].pc = "idle"
    /\ hand.caller[t].made < MaxHandCalls
    /\ hand' = [hand EXCEPT !.caller[t] =
                    [pc |-> "count", arg |-> 10 * t + @.made, name |-> 0, made |-> @.made + 1]]
    /\ UNCHANGED <<handIdle, blobs, now>>

\* num_of_files = len(list(target_path.glob("*.pkl"))); with the limit
\* reached the wrapper returns.
CountBlobs(t) ==
    /\ hand.caller[t].pc = "count"
    /\ hand' = [hand EXCEPT !.caller[t].pc =
                    IF Cardinality(DOMAIN blobs) < hand.max_captures THEN "open" ELSE "idle"]
    /\ UNCHANGED <<handIdle, blobs, now>>

\* CaptureHandler.record up to blob_path.open("wb"): the blob named by the
\* millisecond exists and is empty.
OpenBlob(t) ==
    /\ hand.caller[t].pc = "open"
    /\ blobs' = [n \in DOMAIN blobs \cup {Ms(now)} |->
                    IF n = Ms(now) THEN PartialBlob ELSE blobs[n]]
    /\ hand' = [hand EXCEPT !.caller[t].pc = "dump", !.caller[t].name = Ms(now)]
    /\ UNCHANGED <<handIdle, now>>

\* dill.dump(payload, outf) and the end of the with block; the wrapper
\* returns.
DumpBlob(t) ==
    /\ hand.caller[t].pc = "dump"
    /\ blobs' = [blobs EXCEPT ![hand.caller[t].name] =
                    [arg |-> hand.caller[t].arg, result |-> "r1", complete |-> TRUE]]
    /\ hand' = [hand EXCEPT !.caller[t].pc = "idle"]
    /\ UNCHANGED <<handIdle, now>>

\* What side_effect_lookup does when no blob is left to scan.
Missed(test_mode) == IF test_mode THEN Raised("ValueError") ELSE NotFound

\* side_effect_lookup up to the loop: get_blob_paths globs the folder.
GetBlobPaths(arg, test_mode) ==
    /\ hand.look.pc = "idle"
    /\ hand' = [hand EXCEPT !.look =
                    IF blobs = << >>
                    THEN [NotLooking EXCEPT !.arg = arg, !.strict = test_mode,
                                            !.out = Missed(test_mode)]
                    ELSE [pc |-> "scan", arg |-> arg, strict |-> test_mode,
                          pending |-> DOMAIN blobs, out |-> NotLooking.out]]
    /\ UNCHANGED <<handIdle, blobs, now>>

\* One turn of the loop: CaptureHandler.get_blob loads the next blob of the
\* glob's list; dill.load of an unfinished blob raises EOFError.
GetBlob(bp) ==
    /\ hand.look.pc = "scan"
    /\ bp \in hand.look.pending
    /\ LET look == hand.look IN
       hand' = [hand EXCEPT !.look =
                    IF ~blobs[bp].complete
                    THEN [look EXCEPT !.pc = "idle", !.pending = {},
                                      !.out = Raised("EOFError")]
                    ELSE IF blobs[bp].arg = look.arg
                    THEN [look EXCEPT !.pc = "idle", !.pending = {},
                                      !.out = Found(blobs[bp].result)]
                    ELSE IF look.pending = {bp}
                    THEN [look EXCEPT !.pc = "idle", !.pending = {},
                                      !.out = Missed(look.strict)]
                    ELSE [look EXCEPT !.pending = look.pending \ {bp}]]
    /\ UNCHANGED <<handIdle, blobs, now>>

\* The clock advances.
TickHand ==
    /\ now < MaxTime
    /\ now' = now + 1
    /\ UNCHANGED <<handIdle, blobs, hand>>

\* The folder is empty and the decorator's limit is M.
InitHand ==
    /\ Quiet
    /\ norm = NoNorm /\ owner = NoOwner /\ running = NotRunning /\ filt = NoFilt
    /\ looked = NotLooked
    /\ mock = NoMock /\ py = NoPy /\ blocks = NoBlocks /\ traces = NoTraces /\ cfg = NoCfg
    /\ all = NoAll
    /\ \E m \in 1..MaxCaptures : hand = [NoHand EXCEPT !.max_captures = m]

NextHand ==
    \/ TickHand
    \/ \E t \in Callers : CallCaptured(t)
    \/ \E t \in Callers : CountBlobs(t)
    \/ \E t \in Callers : OpenBlob(t)
    \/ \E t \in Callers : DumpBlob(t)
    \/ \E arg \in HandArgs, test_mode \in BOOLEAN : GetBlobPaths(arg, test_mode)
    \/ \E bp \in 0..Ms(MaxTime) : GetBlob(bp)

SpecHand == InitHand /\ [][NextHand]_vars

\* ------------------------------------------------------ concurrent threads
\* The storage root when the threads start: empty, or holding one capture
\* of "f_x" saved earlier.
Roots == {<< >>} \cup {r.files : r \in save_capture("snapy.capture", << >>, "f_x", 0, 3, 1, TRUE)}

InitThreads ==
    /\ impl \in Impls
    /\ now = 0
    /\ files \in Roots
    /\ calls = 0
    /\ garbage = 0
    /\ story = [f \in FuncNames |-> NoStory]
    /\ last = NoCall
    /\ blobs = << >>
    /\ wrapped = NoWrapped
    /\ inst \in {i \in [Savers -> Instances] : i[1] = "a"}
    /\ lock = [i \in Instances |-> 0]
    /\ saver = [t \in Savers |-> Idle]
    /\ reader = NotReading
    /\ InitPure

\* A thread calls save_capture and enters `with self._lock`: it waits until
\* the lock of its instance is free.
Acquire(t, function_name, overwrite) ==
    /\ saver[t].pc = "idle"
    /\ lock[inst[t]] = 0
    /\ lock' = [lock EXCEPT ![inst[t]] = t]
    /\ saver' = [saver EXCEPT ![t] = [Idle EXCEPT !.pc = "check", !.fn = function_name,
                                          !.k = ThreadRetention, !.ow = overwrite]]
    /\ UNCHANGED <<impl, now, files, calls, garbage, story, last, blobs, wrapped,
                   inst, reader>>

\* The overwrite check: with overwrite=False and a capture listed for the
\* name, the call returns that capture's path; an exception of the listing
\* leaves save_capture.
Check(t) ==
    /\ saver[t].pc = "check"
    /\ IF ~saver[t].ow /\ ListRaises(impl, files, saver[t].fn)
       THEN saver' = [saver EXCEPT ![t].pc = "release"]
       ELSE IF ~saver[t].ow /\ _has_existing_captures(impl, files, saver[t].fn)
       THEN \E existing_files \in list_captures(impl, files, saver[t].fn) :
            saver' = [saver EXCEPT ![t].pc = "release", ![t].path = existing_files[1].path]
       ELSE saver' = [saver EXCEPT ![t].pc = "stamp"]
    /\ UNCHANGED <<impl, now, files, calls, garbage, story, last, blobs, wrapped,
                   inst, lock, reader>>

\* timestamp = datetime.now(), the file name, and _save_to_file's temporary
\* file, created empty.
Stamp(t) ==
    /\ saver[t].pc = "stamp"
    /\ LET file_path == _generate_filename(saver[t].fn, now) IN
        /\ saver' = [saver EXCEPT ![t].pc = "dump", ![t].ts = now, ![t].path = file_path]
        /\ files' = create(files, temp_file_path(t, file_path))
    /\ UNCHANGED <<impl, now, calls, garbage, story, last, blobs, wrapped,
                   inst, lock, reader>>

\* The record is serialized into the temporary file.
Dump(t) ==
    /\ saver[t].pc = "dump"
    /\ files' = dump(files, temp_file_path(t, saver[t].path),
                     CapturedCall(saver[t].path, saver[t].fn, saver[t].ts, t))
    /\ saver' = [saver EXCEPT ![t].pc = "rename"]
    /\ UNCHANGED <<impl, now, calls, garbage, story, last, blobs, wrapped,
                   inst, lock, reader>>

\* os.rename(temp_file_path, file_path)
Rename(t) ==
    /\ saver[t].pc = "rename"
    /\ files' = os_rename(files, temp_file_path(t, saver[t].path), saver[t].path)
    /\ saver' = [saver EXCEPT ![t].pc = "cleanup", ![t].wrote = TRUE]
    /\ UNCHANGED <<impl, now, calls, garbage, story, last, blobs, wrapped,
                   inst, lock, reader>>

\* _cleanup_old_captures(function_name, retention)
Cleanup(t) ==
    /\ saver[t].pc = "cleanup"
    /\ \E c \in _cleanup_old_captures(impl, files, saver[t].fn, saver[t].k) :
        files' = c.files
    /\ saver' = [saver EXCEPT ![t].pc = "release"]
    /\ UNCHANGED <<impl, now, calls, garbage, story, last, blobs, wrapped,
                   inst, lock, reader>>

\* The `with` block is left: the lock is released and save_capture returns.
Release(t) ==
    /\ saver[t].pc = "release"
    /\ lock' = [lock EXCEPT ![inst[t]] = 0]
    /\ saver' = [saver EXCEPT ![t].pc = "done"]
    /\ UNCHANGED <<impl, now, files, calls, garbage, story, last, blobs, wrapped,
                   inst, reader>>

\* list_captures in the reading thread, which takes no lock: the glob.
Glob(function_name) ==
    /\ reader.pc = "idle"
    /\ reader' = [pc |-> "loading", fn |-> function_name,
                  pending |-> Globbed(files, function_name), got |-> {}]
    /\ UNCHANGED <<impl, now, files, calls, garbage, story, last, blobs, wrapped,
                   inst, lock, saver>>

\* list_captures in the reading thread: load_capture of the next file of the
\* glob's result; a file that loads as None is skipped.
Load(file_path) ==
    /\ reader.pc = "loading"
    /\ file_path \in reader.pending
    /\ LET r == load_capture(impl, files, file_path) IN
        reader' = [reader EXCEPT
                      !.pending = @ \ {file_path},
                      !.got = IF r.value.kind = "none" THEN @ ELSE @ \cup {r.value},
                      !.pc = IF r.raised \/ reader.pending = {file_path}
                             THEN "done" ELSE "loading"]
    /\ UNCHANGED <<impl, now, files, calls, garbage, story, last, blobs, wrapped,
                   inst, lock, saver>>

\* The clock advances while a thread has yet to read it.
TickThreads ==
    /\ \E t \in Savers : saver[t].pc \in {"idle", "check", "stamp"}
    /\ Tick
    /\ UNCHANGED <<wrapVars, threadVars, pureVars>>

NextThreads ==
    /\ \/ TickThreads
       \/ \E t \in Savers, f \in FuncNames, ow \in BOOLEAN : Acquire(t, f, ow)
       \/ \E t \in Savers : Check(t)
       \/ \E t \in Savers : Stamp(t)
       \/ \E t \in Savers : Dump(t)
       \/ \E t \in Savers : Rename(t)
       \/ \E t \in Savers : Cleanup(t)
       \/ \E t \in Savers : Release(t)
       \/ \E f \in FuncNames : Glob(f)
       \/ \E n \in AllNames : Load(n)
    /\ UNCHANGED pureVars

SpecThreads == InitThreads /\ [][NextThreads]_vars

\* ----------------------------------------------------------------- claims
\* The records stored for a function identity: the well-formed capture files
\* whose metadata names the function.
RecordsOf(fs, f) == {c \in {fs[n] : n \in DOMAIN fs} : IsOk(c) /\ c.fn = f}

ArgsOf(fs, f) == {c.arg : c \in RecordsOf(fs, f)}

\* The k largest numbers of S: the k most recent calls.
Newest(S, k) == {n \in S : Cardinality({m \in S : m > n}) < k}

OnlyElement(S) == CHOOSE x \in S : TRUE

\* C1: when every call made for f was a save_capture with retention K >= 1
\* that wrote a record, the store holds at most K records for f, and once
\* more than K were made the survivors are exactly the K most recently
\* created ones.
C1_RetentionKeepsNewest ==
    \A f \in FuncNames :
        (story[f].state = "saves" /\ story[f].k >= 1 /\ story[f].wrote = story[f].nums)
        => /\ Cardinality(RecordsOf(files, f)) <= story[f].k
           /\ Cardinality(story[f].nums) > story[f].k
              => ArgsOf(files, f) = Newest(story[f].nums, story[f].k)

\* C2: when every call made for f was a save_capture with overwrite=False
\* and f had no record before, exactly one record is stored for f, it holds
\* the argument of the first call, later calls write nothing, and each call
\* returns the location of that record.
C2_CaptureOnce ==
    \A f \in FuncNames :
        (story[f].state = "saves" /\ ~story[f].ow)
        => /\ ArgsOf(files, f) = Newest(story[f].nums, Cardinality(story[f].nums))
                                 \ Newest(story[f].nums, Cardinality(story[f].nums) - 1)
           /\ Cardinality(RecordsOf(files, f)) = 1
           /\ story[f].wrote = ArgsOf(files, f)
           /\ (last.op = "save_capture" /\ last.fn = f)
              => last.path = OnlyElement(RecordsOf(files, f)).path

\* A save_capture step of the client that wrote a record.
SaveWrote ==
    /\ calls' = calls + 1
    /\ last'.op = "save_capture"
    /\ last'.wrote
    /\ ~last'.raised

\* C3: a call of a function decorated with capture_args (sync or async) or
\* with capture invokes the function exactly once and hands its caller the
\* function's own return value or exception, whether or not capturing failed.
C3_WrappedCalledOnce ==
    wrapped.wrapper # "none" => wrapped.invoked = 1 /\ wrapped.result = wrapped.func

\* A call whose capture raised has returned the function's value.
C3_Witness ==
    /\ wrapped.wrapper \in {"sync_wrapper", "async_wrapper", "capture"}
    /\ wrapped.failed
    /\ ~wrapped.func.raised

\* Threads that call save_capture(f, overwrite=False) for the same name.
FirstSavers(t, u) ==
    /\ t # u
    /\ saver[t].pc = "done" /\ saver[u].pc = "done"
    /\ saver[t].fn = "f" /\ saver[u].fn = "f"
    /\ ~saver[t].ow /\ ~saver[u].ow

\* C4: of two threads that call save_capture(f, overwrite=False) on one
\* CaptureStorage instance, for a name f that had no record, exactly one
\* writes a record.
C4_ExactlyOneFirst ==
    \A t, u \in Savers :
        (FirstSavers(t, u) /\ inst[t] = inst[u]) => (saver[t].wrote # saver[u].wrote)

\* A thread is inside the check, write, prune sequence of save_capture.
InSave(t) == saver[t].pc \in {"check", "stamp", "dump", "rename", "cleanup", "release"}

\* C5: two threads are never both inside the save sequence for the same
\* name on one storage root, whichever CaptureStorage instances they call.
C5_RootMutualExclusion ==
    \A t, u \in Savers :
        (t # u /\ saver[t].fn = saver[u].fn) => ~(InSave(t) /\ InSave(u))

\* C6: while save_capture writes a record, no file that list_captures or
\* load_capture reads for a name holds an unfinished record, and every
\* record the reading thread has loaded is complete.
C6_NoPartialRecord ==
    /\ \A n \in DOMAIN files : Suffix(n) = ".pkl" => files[n].kind # "partial"
    /\ \A c \in reader.got : IsOk(c)

\* The reading thread is loading the files of a name while a thread that
\* saves for that name has its record half written, and has loaded a record.
C6_Witness ==
    /\ reader.pc = "loading"
    /\ reader.got # {}
    /\ \E t \in Savers : saver[t].pc = "dump" /\ saver[t].fn = reader.fn
    /\ \E n \in DOMAIN files : files[n].kind = "partial"

\* The values a call supplies.
Supplied(args, kwargs) ==
    {args[i] : i \in DOMAIN args} \cup {kwargs[i].value : i \in DOMAIN kwargs}

\* How often a value occurs in a mapping: as the value of a key, or as an
\* item of a tuple or dict that is the value of a key.
Occurrences(d, v) ==
    Cardinality({i \in DOMAIN d : d[i].value = v}) +
    Cardinality({p \in {q \in (DOMAIN d) \X (1..(MaxArgs + Len(KeywordNames))) :
                            q[2] \in DOMAIN d[q[1]].value.items} :
                    d[p[1]].value.items[p[2]].value = v})

\* The result of a function that returns its parameters, for the call that
\* was captured.
Original == bind(norm.sig, norm.args, norm.kwargs)

\* C11: a call of a function whose signature can be read, replayed from its
\* record with the loaded (args, kwargs) or with the named mapping, gives
\* the result of the original call.
C11_RoundTrip ==
    (norm.phase = "replayed" /\ Recoverable(norm.sig) /\ ~Original.raised)
    => \/ ~norm.positional.raised /\ norm.positional.arguments = Original.arguments
       \/ ~norm.bykey.raised /\ norm.bykey.arguments = Original.arguments

\* C12: a save_capture or delete_captures call for one function name leaves
\* the records of every other function name as they were.
C12_OtherNamesUntouched ==
    [][\A g \in FuncNames :
          g # last'.fn => RecordsOf(files', g) = RecordsOf(files, g)]_vars

\* C13: every record a function's name lists was captured from a call of
\* that function: functions that differ in module or qualified name do not
\* see each other's records.
C13_NoSharedIdentity ==
    \A func \in Funcs :
        \A captures \in list_captures("snapy.capture", files, function_name_of(func)) :
            \A i \in DOMAIN captures : owner[captures[i].arg] = func

\* The store or the capture folder holds a record of the call with this
\* number.
HasRecord(arg) ==
    \/ \E n \in DOMAIN files : IsOk(files[n]) /\ files[n].arg = arg
    \/ \E n \in DOMAIN blobs : blobs[n].complete /\ blobs[n].arg = arg

\* C14: while the decorated function of a call is running, no record of
\* that call exists.
C14_RecordAfterReturn ==
    running.phase = "running" => ~HasRecord(running.arg)

\* The function returned normally.
Returned == [raised |-> FALSE, value |-> "r1"]

\* C15: when a call of a capture_args-decorated function whose function
\* raises leaves the wrapper, the store is exactly what the same call (same
\* name, overwrite, retention, same capture fault, made on the same store at
\* the same time) leaves when the function returns.
C15_CapturedWhenRaising ==
    [][(/\ running.phase = "running" /\ running'.phase = "idle"
        /\ running.wrapper \in {"sync_wrapper", "async_wrapper"}
        /\ wrapped'.func.raised)
        => \E r \in IF running.wrapper = "sync_wrapper"
                    THEN _capture_and_call_sync(running.entry_files, running.fn,
                                                running.entry_time, running.arg,
                                                running.retention, running.overwrite,
                                                running.fault, Returned)
                    ELSE _capture_and_call_async(running.entry_files, running.fn,
                                                 running.entry_time, running.arg,
                                                 running.retention, running.overwrite,
                                                 running.fault, Returned) :
              /\ files' = r.files
              /\ r.invoked = 1 /\ r.result = Returned]_vars

\* A call whose function raised has propagated the exception and its record
\* is in the store.
C15_Witness ==
    /\ running.phase = "idle"
    /\ wrapped.wrapper \in {"sync_wrapper", "async_wrapper"}
    /\ wrapped.func.raised /\ wrapped.result = wrapped.func
    /\ \E n \in DOMAIN files : IsOk(files[n]) /\ files[n].arg = calls

\* C16: _args_to_named_dict puts every argument of the call into the
\* mapping exactly once.
C16_NoArgumentDropped ==
    norm.phase = "named"
    => \A v \in Supplied(norm.args, norm.kwargs) : Occurrences(norm.named, v) = 1

\* The value `inner` shows in the value `outer`: it is that value, or a
\* piece of that string.
Shows(outer, inner) ==
    \/ outer = inner
    \/ outer.t = "str" /\ inner.t = "str" /\ Contains(outer.s, inner.s)

\* C17: the filtered mapping does not depend on the value of a top-level
\* argument whose name matches a configured pattern (any other value in its
\* place gives the same output), and what stands for that argument does not
\* show the value.
C17_PlaceholderFromNameAlone ==
    filt.phase = "filtered" =>
        \A i \in DOMAIN filt.args_dict :
            is_arg_ignored(filt.ignore_args, filt.args_dict[i].key) =>
                /\ \A v \in SampleValues :
                      filtered_dict(filt.ignore_args,
                                    [filt.args_dict EXCEPT ![i].value = v]) = filt.once
                /\ ~Shows(filt.once[i].value, filt.args_dict[i].value)

\* A secret passed under an ignored name has been replaced by the name's
\* placeholder.
C17_Witness ==
    /\ filt.phase = "filtered"
    /\ \E i \in DOMAIN filt.args_dict :
          /\ filt.args_dict[i] = Entry("password", StrVal("abc123"))
          /\ filt.once[i] = Entry("password", StrVal("<FILTERED:PASSWORD>"))

\* C18: a name is replaced by its placeholder as an argument name of
\* filter_args_dict exactly if it is replaced as a key of a nested mapping.
C18_SameRuleAtEveryDepth ==
    filt.phase = "filtered" =>
        \A i \in DOMAIN filt.args_dict :
            LET key == filt.args_dict[i].key
                nested == _deep_filter_value(filt.ignore_args,
                                             DictOf(key, filt.args_dict[i].value))
            IN  (filt.once[i].value = Filtered(key))
                    <=> (nested.items[1].value = Filtered(key))

\* C19: filter_args_dict applied to its own output returns that output.
C19_FilterIdempotent ==
    filt.phase = "again" => filt.twice = filt.once

\* A mapping the filter changed (a nested sensitive key and a long string
\* with a keyword) has been filtered twice.
C19_Witness ==
    /\ filt.phase = "again"
    /\ \E i, j \in DOMAIN filt.args_dict :
          /\ filt.args_dict[i].value = DictOf("outer", DictOf("api_key", IntVal(7)))
          /\ filt.once[i].value = DictOf("outer", DictOf("api_key", Filtered("api_key")))
          /\ filt.args_dict[j].value = StrVal("my secret plan")
          /\ filt.once[j].value = StrVal("<FILTERED:SENSITIVE_STRING>")

\* C20: a side_effect_lookup that finds no record with the arguments raises a
\* LookupError when the strict test mode is on, and returns (None, False)
\* without raising when it is off.
C20_MissStrictOrNone ==
    [][(/\ looked' # looked
        /\ ~\E n \in DOMAIN blobs : blobs[n].complete /\ blobs[n].arg = looked'.arg)
       => IF looked'.strict
          THEN looked'.raised /\ looked'.exc \in LookupErrors
          ELSE ~looked'.raised /\ looked'.value = "None" /\ ~looked'.found]_vars

\* C21: without test mode a side_effect_lookup on an empty folder returns
\* (None, False), and a side_effect_lookup with arguments the mock's fallback
\* has recorded returns (the recorded result, True).
C21_ReplayOrRecord ==
    [][(looked' # looked /\ ~looked'.strict)
       => /\ blobs = << >> => (~looked'.raised /\ ~looked'.found /\ looked'.value = "None")
          /\ looked'.arg \in DOMAIN mock.recorded
                => (looked'.found /\ looked'.value = mock.recorded[looked'.arg])]_vars

\* The arguments stored in the folder.
StoredArgs == {blobs[n].arg : n \in {m \in DOMAIN blobs : blobs[m].complete}}

\* C22: assert_side_effect_calls passes exactly if the mock was called, at
\* some point, with each of the arguments stored in the folder.
C22_EachStoredCallMade ==
    mock.verdict # "none"
    => (mock.verdict = "passed"
            <=> \A arg \in StoredArgs : \E i \in DOMAIN mock.calls : mock.calls[i] = arg)

\* C23: leaving a with-block of a tracer, at its end or by an exception,
\* makes the thread's trace hook the one that was installed when the block
\* was entered.
C23_HookRestored ==
    [][Len(blocks') < Len(blocks) => py'.hook = blocks[Len(blocks)].hook]_vars

\* The event log replayed from its i-th event with the calls that are open:
\* a call event carries the number of open calls and opens one, a return
\* event closes the call opened last and carries its name and depth.
RECURSIVE Nested(_, _, _)
Nested(events, i, open) ==
    IF i > Len(events) THEN TRUE
    ELSE LET ev == events[i] IN
         IF ev.event_type = "call"
         THEN ev.depth = Len(open) /\ Nested(events, i + 1, Append(open, ev))
         ELSE /\ open # << >>
              /\ open[Len(open)].function_name = ev.function_name
              /\ open[Len(open)].depth = ev.depth
              /\ Nested(events, i + 1, SubSeq(open, 1, Len(open) - 1))

WellNested(events) == Nested(events, 1, << >>)

\* C24: the event log of a tracer is well nested at every moment: a call
\* event has the number of open traced calls as its depth, a return event
\* closes the call opened last with that call's name and depth.
C24_WellNested == \A t \in Tracers : WellNested(py.tracers[t].events)

\* The open frames that tracer t traces, outermost first.
TracedFrames(t) ==
    SelectSeq(py.frames,
              LAMBDA frame : frame.f_trace = t
                             /\ should_trace_frame(py.tracers[t], frame.fn))

\* The call stack of tracer t holds the open frames t traces and nothing
\* else, each at the depth of its place.
Consistent(t) ==
    LET call_stack == py.tracers[t].call_stack
        open == TracedFrames(t)
    IN  /\ Len(call_stack) = Len(open)
        /\ \A i \in DOMAIN call_stack :
              /\ call_stack[i].function_name = open[i].fn
              /\ call_stack[i].depth = i - 1

CaptureEnds ==
    /\ Len(blocks') < Len(blocks)
    /\ blocks[Len(blocks)].by = "capture_trace"

\* C26: a capture_trace call adds one trace to the stored ones, which does
\* not begin with events the tracer held before the call; no step changes
\* a trace stored earlier; format_all_traces gives the stored traces in
\* their order, labelled 1..n.
C26_OneTracePerCapture ==
    [][/\ Len(traces') >= Len(traces)
       /\ \A i \in DOMAIN traces : traces'[i] = traces[i]
       /\ \A i \in DOMAIN traces' :
             format_all_traces(traces')[i] = [label |-> i, trace |-> traces'[i]]
       /\ CaptureEnds =>
             /\ Len(traces') = Len(traces) + 1
             /\ LET before == blocks[Len(blocks)].before
                    trace == traces'[Len(traces')]
                IN  before # << >> =>
                       ~(/\ Len(before) <= Len(trace)
                         /\ SubSeq(trace, 1, Len(before)) = before)]_vars

Settings(config) ==
    IF config = NoConfig
    THEN [enabled |-> TRUE, default_path |-> "root"]
    ELSE [enabled |-> config.enabled, default_path |-> config.default_path]

\* C27: when a CaptureContext block is left, the process-wide configuration
\* has the settings it had when the block was entered, whether a global
\* configuration existed then or not; each block of a nest restores its own.
C27_ContextRestores ==
    [][Len(cfg'.stack) < Len(cfg.stack)
          => Settings(cfg'.global)
                = Settings(cfg.stack[Len(cfg.stack)]._original_config)]_vars

\* The override in force inside the open blocks: that of the innermost
\* block which gives one.
Innermost(given) == CHOOSE i \in given : \A j \in given : j <= i

EnabledOverride ==
    LET given == {i \in DOMAIN cfg.stack : cfg.stack[i].enabled # "None"} IN
    IF given = {} THEN "None" ELSE cfg.stack[Innermost(given)].enabled

PathOverride ==
    LET given == {i \in DOMAIN cfg.stack : cfg.stack[i].path # "None"} IN
    IF given = {} THEN "None" ELSE cfg.stack[Innermost(given)].path

\* The records a step adds for functions decorated with @capture_args().
NewRecords ==
    {r \in cfg'.records \ cfg.records :
        cfg.fns[r.fn].decoration = "capture_args"}

\* C28: inside a CaptureContext block the overrides govern the calls of
\* functions decorated with capture_args: under enabled=False no record is
\* made, under path=P the records made are stored under P.
C28_ContextGoverns ==
    [][/\ EnabledOverride = "False" => NewRecords = {}
       /\ PathOverride # "None" => \A r \in NewRecords : r.path = PathOverride]_vars

\* C29: a function decorated with disable_capture(), alone or on top of
\* @capture_args(), has no record.
C29_DisabledNeverRecords ==
    \A fn \in CfgFns :
        cfg.fns[fn].decoration \in {"disable_capture", "disable_capture_on_capture_args"}
            => \A r \in cfg.records : r.fn # fn

\* The get_global_config call of thread th has returned, and no
\* set_global_config call was made since it began.
Got(th) ==
    /\ cfg.threads[th].pc = "done"
    /\ cfg.threads[th].since = cfg.epoch

\* C30: get_global_config calls between which the configuration was not
\* replaced return the same object, whichever threads make them, and after
\* set_global_config(c) they return c.
C30_OneGlobalConfig ==
    /\ \A t1, t2 \in Threads :
          (Got(t1) /\ Got(t2)) => cfg.threads[t1].result = cfg.threads[t2].result
    /\ \A th \in Threads :
          (Got(th) /\ cfg.set # NoConfig) => cfg.threads[th].result = cfg.set

\* C31: when threads save concurrently through one CaptureStorage instance,
\* every call's capture is stored: once all the calls have returned the
\* store holds a record of each of them.
C31_ConcurrentSavesAllStored ==
    (/\ \A t \in Savers : saver[t].pc = "done"
     /\ \A t, u \in Savers : inst[t] = inst[u])
    => \A t \in Savers : \E c \in UNION {RecordsOf(files, f) : f \in FuncNames} : c.arg = t

\* The function names that have at least one stored record.
StoredNames(fs) == {f \in FuncNames : RecordsOf(fs, f) # {}}

\* C32: list_all_functions returns exactly the function names that have at
\* least one stored record; get_storage_stats reports the number of those
\* names as total_functions and the number of stored records as total_files.
C32_AllFunctionsListed ==
    /\ all.op = "list_all_functions"
       => {all.names[i] : i \in DOMAIN all.names} = StoredNames(all.before)
    /\ (all.op = "get_storage_stats" /\ ~all.raised)
       => /\ all.total_functions = Cardinality(StoredNames(all.before))
          /\ all.total_files =
             Cardinality(UNION {RecordsOf(all.before, f) : f \in FuncNames})

\* C33: after cleanup_all_captures(K) every function keeps its min(n, K)
\* newest records, and the call returns the number of records it deleted.
C33_RetentionPerFunction ==
    (all.op = "cleanup_all_captures" /\ ~all.raised)
    => /\ \A f \in FuncNames : ArgsOf(all.after, f) = Newest(ArgsOf(all.before, f), all.k)
       /\ all.deleted = Cardinality(DOMAIN all.before) - Cardinality(DOMAIN all.after)

\* C40: a folder filled only by the mock (side_effect_lookup, and on a miss
\* the real call through the capture wrapper) never holds two blobs with
\* equal arguments, so whichever order the blobs are scanned in, a lookup
\* that finds the arguments returns one and the same result.
C40_NoDuplicateArguments ==
    /\ \A n, m \in DOMAIN blobs :
          (blobs[n].complete /\ blobs[m].complete /\ blobs[n].arg = blobs[m].arg) => n = m
    /\ \A arg \in MockArgs :
          Cardinality({o \in side_effect_lookup(blobs, arg, FALSE) : o.found}) <= 1

\* C34: with capture(max_captures=M) and capture enabled, the folder never
\* holds more than M blobs, however the concurrent calls of the decorated
\* function interleave.
C34_AtMostMaxCaptures ==
    Cardinality(DOMAIN blobs) <= hand.max_captures

\* C35: a side_effect_lookup that runs while CaptureHandler.record writes
\* into the same folder never loads an unfinished blob: it does not fail
\* with the error of one.
C35_LookupNeverReadsPartial ==
    hand.look.out.exc # "EOFError"

\* C36: in whatever order started tracers are stopped, once none is tracing
\* the thread's hook is the one the test began with, which is no tracer's;
\* and a tracer that is not tracing never has its trace_function installed.
C36_StoppedTracerNotInstalled ==
    \A t \in Tracers : ~py.tracers[t].is_tracing => py.hook # t

\* The step is the call t.clear() of a tracer that is tracing while calls
\* it traces are open.
ClearsInSession(t) ==
    /\ py.tracers[t].is_tracing
    /\ TracedFrames(t) # << >>
    /\ py' = Step(clear(py, t))

\* C37: clear() called while traced calls are open leaves the call stack as
\* the open calls need it: a later call event gets the number of open
\* traced calls as its depth, and the return of every call that was open
\* finds its entry and is recorded.
C37_ClearKeepsOpenCalls ==
    [][\A t \in Tracers : (ClearsInSession(t) /\ Consistent(t)) => Consistent(t)']_vars

\* The step is a save_capture call that raised.
FailedSave == calls' = calls + 1 /\ last'.op = "save_capture" /\ last'.raised

\* C38: a save_capture call that fails while the record is serialized or
\* written leaves the store as it was: list_captures gives for every name
\* what it gave before, so no record of the failed call is listed and none
\* was pruned.
C38_FailedSaveChangesNothing ==
    [][FailedSave => \A f \in FuncNames :
                        list_captures(impl, files', f) = list_captures(impl, files, f)]_vars

\* A save has failed for a name that has more records than the retention
\* the failed call asked for.
C38_Witness ==
    /\ last.op = "save_capture" /\ last.raised
    /\ Cardinality(RecordsOf(files, last.fn)) > last.k

\* C39: the location save_capture returns names a record that exists and
\* loads when save_capture returns, for every retention, 0 included, and
\* for either overwrite setting.
C39_ReturnedLocationLoads ==
    (last.op = "save_capture" /\ ~last.raised)
    => /\ last.path \in DOMAIN files
       /\ IsOk(load_capture(impl, files, last.path).value)

\* C7: a save that writes a record for an identity in the same millisecond
\* as an earlier save of that identity leaves the earlier record in place
\* (the retention leaving room for both).
C7_SameMillisecondSavesBothPersist ==
    [][SaveWrote =>
        \A n \in DOMAIN files :
            (/\ IsOk(files[n])
             /\ files[n].fn = last'.fn
             /\ Ms(files[n].ts) = Ms(now)
             /\ Cardinality(Loaded(impl, files, last'.fn)) < last'.k)
            => \E m \in DOMAIN files' : files'[m] = files[n]]_vars

\* C8: load_capture returns None instead of raising, whatever the file
\* holds, and list_captures skips the files that do not load.
C8_LoadNeverRaises ==
    /\ last.op = "load_capture" => ~last.raised
    /\ last.op = "list_captures" =>
        /\ ~last.raised
        /\ \A i \in 1..Len(last.recs) : IsOk(last.recs[i])

\* The captures a listing of f is made of.
Listed(f) == Loaded(impl, files, f)

NewestFirst(s) == \A i, j \in 1..Len(s) : i < j => s[i].ts >= s[j].ts

\* c can stand at position i (from 0) of a newest-first listing of S.
AtPosition(c, i, S) ==
    /\ c \in S
    /\ Cardinality({d \in S : d.ts > c.ts}) <= i
    /\ i < Cardinality({d \in S : d.ts >= c.ts})

\* C9: a listing is ordered newest-first by timestamp and holds every
\* capture once; load_latest_capture returns its element 0 and
\* load_capture_by_index its element i, None outside 0..len-1.
C9_NewestFirst ==
    /\ (last.op = "list_captures" /\ ~last.raised) =>
        /\ NewestFirst(last.recs)
        /\ Len(last.recs) = Cardinality(Listed(last.fn))
        /\ {last.recs[i] : i \in 1..Len(last.recs)} = Listed(last.fn)
    /\ (last.op = "load_latest_capture" /\ ~last.raised) =>
        IF Listed(last.fn) = {} THEN last.recs = << >>
        ELSE Len(last.recs) = 1 /\ AtPosition(last.recs[1], 0, Listed(last.fn))
    /\ (last.op = "load_capture_by_index" /\ ~last.raised) =>
        IF last.idx < 0 \/ last.idx >= Cardinality(Listed(last.fn))
        THEN last.recs = << >>
        ELSE Len(last.recs) = 1 /\ AtPosition(last.recs[1], last.idx, Listed(last.fn))

\* A listing of three captures with different timestamps has been returned.
C9_Witness ==
    /\ last.op = "list_captures"
    /\ Len(last.recs) >= 3
    /\ last.recs[1].ts > last.recs[Len(last.recs)].ts

ReadOps == {"list_captures", "load_latest_capture", "load_capture_by_index",
            "has_captures", "get_capture_count"}

\* C10: every read of a function identity that has no record returns
\* nothing (False, 0, None) and does not raise.
C10_MissingIdentity ==
    (last.op \in ReadOps /\ RecordsOf(files, last.fn) = {})
    => /\ ~last.raised
       /\ last.recs = << >>
       /\ last.num = 0
====
